---- MODULE Spec2Model ----
(***************************************************************************)
(* VolumeBooster: the settings/state synchronization core.                 *)
(*                                                                         *)
(* SettingsManager (src/src/storage/SettingsManager.ts) on top of          *)
(* StorageManager (src/src/storage/StorageManager.ts) on top of the        *)
(* platform's AsyncStorage.  An asynchronous method is modelled as one     *)
(* action for its synchronous prefix and one action per continuation       *)
(* after an await.  Under Spec the Ready-state mutators are started one    *)
(* at a time (each call is awaited before the next one is made).           *)
(***************************************************************************)
EXTENDS Integers, Sequences, FiniteSets, TLC

VARIABLES
    settings,            \* SettingsManager.settings, the in-memory AppSettings
    isInitialized,       \* SettingsManager.isInitialized
    storageInitialized,  \* StorageManager.isInitialized
    asyncStorage,        \* the AsyncStorage document under storageKey
    call,                \* the latest call that got past its checks: locals, position
    last,                \* the last call that returned, and what it returned
    events,              \* the SettingsChangeEvents notified by that latest call
    faults,              \* the AsyncStorage failures that have happened so far
    written,             \* the documents AsyncStorage has stored for the latest call
    saveFailed,          \* a saveSettings() of this process has failed
    beforeRestart,       \* the record in memory when the process was last killed
    before,              \* the record in memory when that latest call was made
    candidate,           \* a value handed to validateSettings on its own
    validation,          \* the ValidationResult it gave for candidate
    cleared,             \* a clearSettings() has removed the document
    store,               \* the latest call made to the StorageManager itself
    storeLog,            \* the AsyncStorage calls and the delays of that call
    changeListeners,     \* SettingsManager.changeListeners
    emitted,             \* the last event notified and the listeners there were then
    delivered,           \* the listeners that event was delivered to, in order
    inflight,            \* the mutating calls that overlap, each at its await
    saveExhausted,       \* a save of an overlapping call used up its attempts
    started,             \* the number of overlapping calls made
    component,           \* the React state of the VolumeBooster component
    awaiting,            \* its handlers that await VolumeBoosterModule.setBoost
    service,             \* the VolumeBoosterService instance, its effect and notification
    module,              \* the fields of VolumeBoosterModule and its effect
    streamVolume,         \* AudioManager: the volume of STREAM_MUSIC, in steps
    monitor              \* the monitoring Runnables of the module on its Handler

managerVars ==
    <<settings, isInitialized, storageInitialized, asyncStorage, call, last, events,
      faults, written, saveFailed, beforeRestart, before>>

validatorVars == <<candidate, validation>>

\* the variables of the parts of the program that are modelled on their own
storeVars == <<store, storeLog>>

listenerVars == <<changeListeners, emitted, delivered>>

overlapVars == <<inflight, saveExhausted, started>>

componentVars == <<component, awaiting>>

nativeVars == <<service, module, streamVolume, monitor>>

extensionVars ==
    <<cleared, storeVars, listenerVars, overlapVars, componentVars, nativeVars>>

\* what a step of the settings manager leaves alone
otherVars == <<validatorVars, extensionVars>>

vars == <<managerVars, validatorVars, extensionVars>>

(***************************************************************************)
(* Bounds of the model.                                                    *)
(***************************************************************************)
\* AsyncStorage operations that may fail in one run
MaxFaults == 3

(***************************************************************************)
(* JavaScript values.  A number keeps its value, NaN is a number that      *)
(* compares false with everything, Str is the string "abc".                *)
(***************************************************************************)
Num(n) == [kind |-> "number", val |-> n]
Bool(b) == [kind |-> "boolean", val |-> b]
NaN == [kind |-> "NaN", val |-> 0]
Str == [kind |-> "string", val |-> 0]
Undefined == [kind |-> "undefined", val |-> 0]
Null == [kind |-> "null", val |-> 0]

\* typeof v
TypeOf(v) ==
    CASE v.kind \in {"number", "NaN"} -> "number"
      [] v.kind = "boolean" -> "boolean"
      [] v.kind = "string" -> "string"
      [] v.kind = "undefined" -> "undefined"
      [] OTHER -> "object"

\* v < n and v > n, evaluated on a value whose typeof is "number"
LessThan(v, n) == v.kind = "number" /\ v.val < n
GreaterThan(v, n) == v.kind = "number" /\ v.val > n

\* a !== b
StrictNotEquals(a, b) == a.kind = "NaN" \/ b.kind = "NaN" \/ a # b

(***************************************************************************)
(* AppSettings.                                                            *)
(***************************************************************************)
\* the keys of AppSettings, in declaration order
Fields ==
    <<"volume", "boost", "gradualBoost", "appOnlyBoost", "boostEnabled",
      "autoVolumeEnabled">>

FieldNames == {Fields[i] : i \in 1..Len(Fields)}

storageKey == "@VolumeBooster_Settings_v2"

defaultSettings ==
    [volume |-> Num(100), boost |-> Num(0), gradualBoost |-> Bool(FALSE),
     appOnlyBoost |-> Bool(FALSE), boostEnabled |-> Bool(FALSE),
     autoVolumeEnabled |-> Bool(FALSE)]

\* {} : an object none of whose AppSettings keys is defined
EmptyObject == [f \in FieldNames |-> Undefined]

\* A value handed to validateSettings or held in a StorageResult: an object
\* with its properties, or a value that is no object.
Obj(rec) == [kind |-> "object", rec |-> rec]
NonObj(k) == [kind |-> k, rec |-> EmptyObject]

\* if (x) ...
Truthy(x) == x.kind \notin {"undefined", "null"}

\* { ...target, [key]: value }
WithField(rec, key, value) == [rec EXCEPT ![key] = value]

\* { ...target, ...partial } for a partial given as <<key, value>> pairs in the
\* order its keys were written
RECURSIVE Spread(_, _)
Spread(rec, partial) ==
    IF partial = <<>> THEN rec
    ELSE Spread(WithField(rec, partial[1][1], partial[1][2]), Tail(partial))

\* Object.keys(partial)
ObjectKeys(partial) == [i \in 1..Len(partial) |-> partial[i][1]]

(***************************************************************************)
(* JSON.  A document is written as the value JSON.parse gives back for it: *)
(* JSON.stringify writes NaN as null and leaves out undefined properties;  *)
(* Corrupt is a text JSON.parse throws on, Absent is no text at all.       *)
(***************************************************************************)
Absent == NonObj("absent")
Corrupt == NonObj("corrupt")

JSONstringify(rec) ==
    Obj([f \in FieldNames |-> IF rec[f].kind = "NaN" THEN Null ELSE rec[f]])

JSONparse(text) == text

(***************************************************************************)
(* SettingsManager.validateSettings                                        *)
(***************************************************************************)
\* the volume check with the upper end of the range left out (volume >= 100)
VolumeInvalidExclusive(v) ==
    TypeOf(v) # "number" \/ LessThan(v, 0) \/ ~LessThan(v, 100)

VolumeInvalid(v) == TypeOf(v) # "number" \/ LessThan(v, 0) \/ GreaterThan(v, 100)

BoostInvalid(v) == TypeOf(v) # "number" \/ LessThan(v, 0) \/ GreaterThan(v, 200)

BooleanInvalid(v) == TypeOf(v) # "boolean"

validateSettings(s) ==
    IF s.kind # "object"
    THEN [isValid |-> FALSE, errors |-> <<"Settings must be an object">>]
    ELSE LET errors ==
                 (IF VolumeInvalid(s.rec.volume)
                  THEN <<"Volume must be a number between 0 and 100">> ELSE <<>>)
              \o (IF BoostInvalid(s.rec.boost)
                  THEN <<"Boost must be a number between 0 and 200">> ELSE <<>>)
              \o (IF BooleanInvalid(s.rec.gradualBoost)
                  THEN <<"GradualBoost must be a boolean">> ELSE <<>>)
              \o (IF BooleanInvalid(s.rec.appOnlyBoost)
                  THEN <<"AppOnlyBoost must be a boolean">> ELSE <<>>)
              \o (IF BooleanInvalid(s.rec.boostEnabled)
                  THEN <<"BoostEnabled must be a boolean">> ELSE <<>>)
              \o (IF BooleanInvalid(s.rec.autoVolumeEnabled)
                  THEN <<"AutoVolumeEnabled must be a boolean">> ELSE <<>>)
         IN  [isValid |-> Len(errors) = 0, errors |-> errors]

(***************************************************************************)
(* The inputs of the model.                                                *)
(***************************************************************************)
VolumeInputs == {Num(0), Num(100), Num(-1), Num(101), NaN, Str, Undefined}

BoostInputs == {Num(0), Num(200), Num(-1), Num(201), Str}

BooleanInputs == {Bool(TRUE), Bool(FALSE), Str}

InputsOf(key) ==
    CASE key = "volume" -> VolumeInputs
      [] key = "boost" -> BoostInputs
      [] OTHER -> BooleanInputs

\* arguments of setMultipleSettings
Partials ==
    { <<>>,
      << <<"boost", Num(200)>> >>,
      << <<"volume", Num(0)>>, <<"boostEnabled", Bool(TRUE)>> >>,
      << <<"boostEnabled", Bool(TRUE)>>, <<"volume", Num(0)>> >>,
      << <<"boost", Num(200)>>, <<"volume", Num(101)>> >>,
      << <<"gradualBoost", Bool(TRUE)>>, <<"volume", NaN>> >>,
      << <<"appOnlyBoost", Undefined>> >> }

\* what the device may hold under storageKey when the process starts
InitialDocuments ==
    { Absent, Corrupt, NonObj("null"), NonObj("string"),
      JSONstringify(defaultSettings),
      JSONstringify([defaultSettings EXCEPT !.volume = Num(0), !.boost = Num(200),
                                            !.boostEnabled = Bool(TRUE)]),
      Obj([defaultSettings EXCEPT !.volume = Str, !.boost = Num(200)]),
      Obj([defaultSettings EXCEPT !.volume = Num(101), !.boost = Num(200)]),
      Obj([defaultSettings EXCEPT !.boost = Num(201)]),
      Obj([defaultSettings EXCEPT !.boost = Undefined, !.volume = Num(0)]),
      Obj([defaultSettings EXCEPT !.volume = Null, !.gradualBoost = Bool(TRUE)]),
      Obj([defaultSettings EXCEPT !.autoVolumeEnabled = Str, !.volume = Num(0)]) }

(***************************************************************************)
(* StorageManager                                                          *)
(***************************************************************************)
retryAttempts == 3

StorageResult(success, data) == [success |-> success, data |-> data]

\* what one successful AsyncStorage.getItem attempt of getItem returns
\* getItem taking a missing key for a failed read
GetItemFoundOrFailed(text) ==
    IF text = Absent THEN StorageResult(FALSE, NonObj("undefined"))
    ELSE StorageResult(TRUE, JSONparse(text))

GetItemFound(text) ==
    IF text = Absent THEN StorageResult(TRUE, NonObj("undefined"))
    ELSE StorageResult(TRUE, JSONparse(text))

\* what getItem returns once its attempts are exhausted
GetItemFailed == StorageResult(FALSE, NonObj("undefined"))

(***************************************************************************)
(* Calls.  call holds the locals of the latest call that got past its      *)
(* not-initialized and validation checks, and where it stands: at an       *)
(* await ("testGet", "testRemove", "get", "getDelay", "set", "setDelay",   *)
(* "resume"), returned ("done") or thrown ("thrown").                      *)
(***************************************************************************)
NoResult == StorageResult(FALSE, NonObj("none"))

NoCall ==
    [op |-> "none", pc |-> "idle", attempt |-> 0, key |-> "", value |-> Undefined,
     oldValue |-> Undefined, partial |-> <<>>, oldSettings |-> defaultSettings,
     result |-> NoResult, saved |-> "none", ret |-> "none"]

\* no call is at an await
Idle == call.pc \in {"idle", "done", "thrown"}

NoReturn == [op |-> "none", result |-> "none"]

Returned(op, result) == [op |-> op, result |-> result]

SettingsChangeEvent(key, oldValue, newValue) ==
    [key |-> key, oldValue |-> oldValue, newValue |-> newValue]

NotKnown == [known |-> FALSE, settings |-> defaultSettings]

NotValidated == [isValid |-> FALSE, errors |-> <<>>]

\* one more AsyncStorage operation may fail
MayFail == faults < MaxFaults

\* no call has been made to the StorageManager itself
NoStoreCall ==
    [op |-> "none", pc |-> "idle", attempt |-> 0, value |-> defaultSettings,
     lazy |-> FALSE, result |-> NoResult]

\* no event has been notified
NotEmitted == [event |-> "none", listeners |-> <<>>]

\* the calls of setSetting, setMultipleSettings and resetToDefaults that may be
\* at their await at the same time
MaxCalls == 2

\* the calls of them made in one run
MaxStarted == 3

Slots == 1..MaxCalls

\* no call: live tells that the value setItem was given is the object
\* this.settings still refers to, value is that object's content otherwise
FreeSlot ==
    [op |-> "none", pc |-> "free", attempt |-> 0, live |-> FALSE,
     value |-> defaultSettings, keys |-> <<>>, oldSettings |-> defaultSettings,
     oldValue |-> Undefined, newValue |-> Undefined, saved |-> "none"]

\* the useState values of the component before initializeApp has run; volume,
\* appOnlyBoost and the background mode take no part in what is modelled of it
NotMounted ==
    [loaded |-> FALSE, boost |-> Num(0), gradualBoost |-> Bool(FALSE),
     boostEnabled |-> Bool(FALSE), isInitialized |-> FALSE]

(***************************************************************************)
(* The audio effect of Android and the two objects that own one.           *)
(***************************************************************************)
\* the steps of STREAM_MUSIC, getStreamMaxVolume being the last
MaxVolume == 2

StreamVolumes == 0..MaxVolume

\* the volume the user has set when the app starts
InitialVolume == 1

\* LoudnessEnhancer(0) is attached to the global output mix;
\* generateAudioSessionId gives the session of the app
GlobalSession == 0

AppSession == 1

\* boostLevel * 25: gain in millibels
MillibelsPerPercent == 25

\* loudnessEnhancer = null
NoEnhancer == [status |-> "null", session |-> GlobalSession, gain |-> 0, enabled |-> FALSE]

\* LoudnessEnhancer(session): a new effect, target gain 0, not enabled
LoudnessEnhancer(session) ==
    [status |-> "live", session |-> session, gain |-> 0, enabled |-> FALSE]

\* loudnessEnhancer?.release(): the reference stays, the effect is gone
Release(enhancer) ==
    IF enhancer.status = "null" THEN enhancer
    ELSE [status |-> "released", session |-> enhancer.session, gain |-> 0,
          enabled |-> FALSE]

\* no notification is shown
NoNotification == [shown |-> FALSE, active |-> FALSE, level |-> 0, appOnly |-> FALSE]

\* no command has been handled
NoCommand == [cmd |-> "none", level |-> 0, appOnly |-> FALSE, enabled |-> FALSE]

\* the fields a new VolumeBoosterService has, before onCreate; threw, command,
\* prior and restarted record what happened: the last command threw an exception
\* that was caught, the last command, the fields before it, and that an earlier
\* instance had handled setBoost or enableBoost
NoService ==
    [created |-> FALSE, foreground |-> FALSE, isBoostEnabled |-> FALSE,
     isAppOnlyBoost |-> FALSE, currentBoostLevel |-> 0, audioSessionID |-> 0,
     loudnessEnhancer |-> NoEnhancer, notification |-> NoNotification,
     threw |-> FALSE, faulted |-> FALSE, command |-> NoCommand,
     prior |-> [isBoostEnabled |-> FALSE, isAppOnlyBoost |-> FALSE,
                currentBoostLevel |-> 0],
     restarted |-> FALSE]

\* the fields a new VolumeBoosterModule has, before initializeAudio
NoModule ==
    [initialized |-> FALSE, isBoostEnabled |-> TRUE, isAppOnlyBoost |-> FALSE,
     currentBoostLevel |-> 0, audioSessionID |-> 0, loudnessEnhancer |-> NoEnhancer,
     isBackgroundModeEnabled |-> FALSE, isServiceBound |-> FALSE,
     connecting |-> FALSE, switchedOff |-> FALSE, command |-> NoCommand]

\* ((currentVolume.toFloat() / maxVolume) * 100).toInt()
Percentage(volume) == (volume * 100) \div MaxVolume

\* the Handler of the module before any monitoring is started, initializeAudio
\* having set lastVolumeLevel; device 0 is no device, lastDeviceId 0 is null
NoMonitor ==
    [queue |-> {}, running |-> "none",
     lastVolumeLevel |-> Percentage(InitialVolume), lastDeviceId |-> 0,
     activeDevice |-> 1, volumeChanged |-> -1, audioDeviceChanged |-> -1,
     deviceWanted |-> FALSE, volumeWanted |-> FALSE]

\* the parts modelled on their own, before anything has been called
ExtensionInit ==
    /\ cleared = FALSE
    /\ store = NoStoreCall
    /\ storeLog = <<>>
    /\ changeListeners = <<>>
    /\ emitted = NotEmitted
    /\ delivered = <<>>
    /\ inflight = [slot \in Slots |-> FreeSlot]
    /\ saveExhausted = FALSE
    /\ started = 0
    /\ component = NotMounted
    /\ awaiting = <<>>
    /\ service = NoService
    /\ module = NoModule
    /\ streamVolume = InitialVolume
    /\ monitor = NoMonitor

Init ==
    /\ settings = defaultSettings
    /\ isInitialized = FALSE
    /\ storageInitialized = FALSE
    /\ asyncStorage \in InitialDocuments
    /\ call = NoCall
    /\ last = NoReturn
    /\ events = <<>>
    /\ faults = 0
    /\ written = <<>>
    /\ saveFailed = FALSE
    /\ beforeRestart = NotKnown
    /\ before = defaultSettings
    /\ candidate = Obj(defaultSettings)
    /\ validation = NotValidated
    /\ ExtensionInit

(***************************************************************************)
(* SettingsManager.getSetting, getAllSettings                              *)
(***************************************************************************)
\* getSetting reading the defaults whatever the state
getSettingFromDefaults(key) == defaultSettings[key]

getSetting(key) == IF ~isInitialized THEN defaultSettings[key] ELSE settings[key]

\* getAllSettings without its not-initialized check
getAllSettingsUnchecked == settings

getAllSettings == IF ~isInitialized THEN defaultSettings ELSE settings

(***************************************************************************)
(* SettingsManager.initialize, StorageManager.initialize                   *)
(***************************************************************************)
\* initialize() up to its first await, inside storageManager.initialize()
initialize ==
    /\ UNCHANGED otherVars
    /\ Idle
    /\ call' = [NoCall EXCEPT !.op = "initialize", !.pc = "testGet"]
    /\ last' = NoReturn
    /\ events' = <<>>
    /\ written' = <<>>
    /\ before' = settings
    /\ beforeRestart' = IF isInitialized THEN NotKnown ELSE beforeRestart
    /\ UNCHANGED <<settings, isInitialized, storageInitialized, asyncStorage, faults,
                   saveFailed>>

\* await AsyncStorage.getItem('__test__'): a failure makes both initialize()s throw
StorageTestGet ==
    /\ UNCHANGED otherVars
    /\ call.pc = "testGet"
    /\ \/ /\ call' = [call EXCEPT !.pc = "testRemove"]
          /\ UNCHANGED <<faults, last>>
       \/ /\ MayFail
          /\ faults' = faults + 1
          /\ call' = [call EXCEPT !.pc = "thrown", !.ret = "rejected"]
          /\ last' = Returned("initialize", "rejected")
    /\ UNCHANGED <<settings, isInitialized, storageInitialized, asyncStorage, events,
                   written, saveFailed, beforeRestart, before>>

\* await AsyncStorage.removeItem('__test__'), then StorageManager.isInitialized =
\* true and loadSettings() up to the first attempt of getItem(storageKey)
StorageTestRemove ==
    /\ UNCHANGED otherVars
    /\ call.pc = "testRemove"
    /\ \/ /\ storageInitialized' = TRUE
          /\ call' = [call EXCEPT !.pc = "get", !.attempt = 1]
          /\ UNCHANGED <<faults, last>>
       \/ /\ MayFail
          /\ faults' = faults + 1
          /\ call' = [call EXCEPT !.pc = "thrown", !.ret = "rejected"]
          /\ last' = Returned("initialize", "rejected")
          /\ UNCHANGED storageInitialized
    /\ UNCHANGED <<settings, isInitialized, asyncStorage, events, written, saveFailed,
                   beforeRestart, before>>

(***************************************************************************)
(* SettingsManager.loadSettings, StorageManager.getItem                    *)
(***************************************************************************)
\* loadSettings() repairing an invalid record field by field instead of dropping it
loadSettingsRepaired(result) ==
    IF result.success /\ Truthy(result.data) /\ result.data.kind = "object"
    THEN /\ settings' = [f \in FieldNames |->
                            IF validateSettings(
                                   Obj(WithField(defaultSettings, f, result.data.rec[f]))
                               ).isValid
                            THEN result.data.rec[f] ELSE defaultSettings[f]]
         /\ IF validateSettings(result.data).isValid
            THEN call' = [call EXCEPT !.pc = "resume", !.result = result]
            ELSE call' = [call EXCEPT !.pc = "set", !.attempt = 1, !.result = result]
    ELSE /\ settings' = defaultSettings
         /\ call' = [call EXCEPT !.pc = "set", !.attempt = 1, !.result = result]

\* loadSettings() from the result of getItem on: a valid record is copied, anything
\* else makes the defaults the record and starts saveSettings()
loadSettings(result) ==
    IF result.success /\ Truthy(result.data) /\ validateSettings(result.data).isValid
    THEN /\ settings' = result.data.rec
         /\ call' = [call EXCEPT !.pc = "resume", !.result = result]
    ELSE /\ settings' = defaultSettings
         /\ call' = [call EXCEPT !.pc = "set", !.attempt = 1, !.result = result]

\* one attempt of getItem(storageKey): AsyncStorage.getItem, then JSON.parse
StorageGetItem ==
    /\ UNCHANGED otherVars
    /\ call.pc = "get"
    /\ \/ /\ asyncStorage # Corrupt
          /\ loadSettings(GetItemFound(asyncStorage))
          /\ UNCHANGED faults
       \/ /\ \/ asyncStorage = Corrupt /\ UNCHANGED faults
             \/ MayFail /\ faults' = faults + 1
          /\ IF call.attempt < retryAttempts
             THEN /\ call' = [call EXCEPT !.pc = "getDelay"]
                  /\ UNCHANGED settings
             ELSE loadSettings(GetItemFailed)
    /\ UNCHANGED <<isInitialized, storageInitialized, asyncStorage, last, events,
                   written, saveFailed, beforeRestart, before>>

\* await this.delay(retryDelay) between two attempts of getItem
StorageGetDelay ==
    /\ UNCHANGED otherVars
    /\ call.pc = "getDelay"
    /\ call' = [call EXCEPT !.pc = "get", !.attempt = call.attempt + 1]
    /\ UNCHANGED <<settings, isInitialized, storageInitialized, asyncStorage, last,
                   events, faults, written, saveFailed, beforeRestart, before>>

(***************************************************************************)
(* SettingsManager.saveSettings, StorageManager.setItem                    *)
(***************************************************************************)
\* one attempt of setItem(storageKey, this.settings): JSON.stringify, then
\* AsyncStorage.setItem; saveSettings() only logs a failure
StorageSetItem ==
    /\ UNCHANGED otherVars
    /\ call.pc = "set"
    /\ \/ /\ asyncStorage' = JSONstringify(settings)
          /\ written' = Append(written, JSONstringify(settings))
          /\ call' = [call EXCEPT !.pc = "resume", !.saved = "success"]
          /\ UNCHANGED <<faults, saveFailed>>
       \/ /\ MayFail
          /\ faults' = faults + 1
          /\ IF call.attempt < retryAttempts
             THEN /\ call' = [call EXCEPT !.pc = "setDelay"]
                  /\ UNCHANGED saveFailed
             ELSE /\ call' = [call EXCEPT !.pc = "resume", !.saved = "failure"]
                  /\ saveFailed' = TRUE
          /\ UNCHANGED <<asyncStorage, written>>
    /\ UNCHANGED <<settings, isInitialized, storageInitialized, last, events,
                   beforeRestart, before>>

\* await this.delay(retryDelay) between two attempts of setItem
StorageSetDelay ==
    /\ UNCHANGED otherVars
    /\ call.pc = "setDelay"
    /\ call' = [call EXCEPT !.pc = "set", !.attempt = call.attempt + 1]
    /\ UNCHANGED <<settings, isInitialized, storageInitialized, asyncStorage, last,
                   events, faults, written, saveFailed, beforeRestart, before>>

\* initialize() after await this.loadSettings()
initializeResume ==
    /\ UNCHANGED otherVars
    /\ call.op = "initialize"
    /\ call.pc = "resume"
    /\ isInitialized' = TRUE
    /\ call' = [call EXCEPT !.pc = "done", !.ret = "resolved"]
    /\ last' = Returned("initialize", "resolved")
    /\ UNCHANGED <<settings, storageInitialized, asyncStorage, events, faults, written,
                   saveFailed, beforeRestart, before>>

(***************************************************************************)
(* SettingsManager.notifyChangeListeners: every event it is called with is *)
(* appended to the events the latest call has notified.                    *)
(***************************************************************************)
RECURSIVE notifyChanged(_, _, _)
\* keys.forEach(key => { if (oldSettings[key] !== now[key]) notify(...) })
notifyChanged(keys, oldSettings, now) ==
    IF keys = <<>> THEN <<>>
    ELSE (IF StrictNotEquals(oldSettings[Head(keys)], now[Head(keys)])
          THEN <<SettingsChangeEvent(Head(keys), oldSettings[Head(keys)],
                                     now[Head(keys)])>>
          ELSE <<>>)
         \o notifyChanged(Tail(keys), oldSettings, now)

(***************************************************************************)
(* SettingsManager.setSetting                                              *)
(***************************************************************************)
\* setSetting(key, value) up to its await this.saveSettings(): the first attempt
\* of setItem is made before the call yields
setSetting(key, value) ==
    /\ UNCHANGED otherVars
    /\ IF ~isInitialized
       THEN /\ last' = Returned("setSetting", "false")
            /\ UNCHANGED <<settings, isInitialized, storageInitialized, asyncStorage,
                           call, events, faults, written, saveFailed, beforeRestart, before>>
       ELSE /\ Idle
            /\ IF ~validateSettings(Obj(WithField(settings, key, value))).isValid
               THEN /\ last' = Returned("setSetting", "false")
                    /\ UNCHANGED <<settings, call, events, written, beforeRestart, before>>
               ELSE /\ settings' = WithField(settings, key, value)
                    /\ call' = [NoCall EXCEPT !.op = "setSetting", !.pc = "set",
                                              !.attempt = 1, !.key = key,
                                              !.value = value,
                                              !.oldValue = settings[key]]
                    /\ last' = NoReturn
                    /\ events' = <<>>
                    /\ written' = <<>>
                    /\ beforeRestart' = NotKnown
                    /\ before' = settings
            /\ UNCHANGED <<isInitialized, storageInitialized, asyncStorage, faults,
                           saveFailed>>

\* setSetting notifying only a value that differs from the old one
setSettingResumeIfChanged ==
    /\ UNCHANGED otherVars
    /\ call.op = "setSetting"
    /\ call.pc = "resume"
    /\ events' = events \o (IF StrictNotEquals(call.oldValue, call.value)
                             THEN <<SettingsChangeEvent(call.key, call.oldValue,
                                                        call.value)>>
                             ELSE <<>>)
    /\ call' = [call EXCEPT !.pc = "done", !.ret = "true"]
    /\ last' = Returned("setSetting", "true")
    /\ UNCHANGED <<settings, isInitialized, storageInitialized, asyncStorage, faults,
                   written, saveFailed, beforeRestart, before>>

\* setSetting after await this.saveSettings(): notify, return true
setSettingResume ==
    /\ UNCHANGED otherVars
    /\ call.op = "setSetting"
    /\ call.pc = "resume"
    /\ events' = events \o <<SettingsChangeEvent(call.key, call.oldValue, call.value)>>
    /\ call' = [call EXCEPT !.pc = "done", !.ret = "true"]
    /\ last' = Returned("setSetting", "true")
    /\ UNCHANGED <<settings, isInitialized, storageInitialized, asyncStorage, faults,
                   written, saveFailed, beforeRestart, before>>

(***************************************************************************)
(* SettingsManager.setMultipleSettings                                     *)
(***************************************************************************)
setMultipleSettings(partial) ==
    /\ UNCHANGED otherVars
    /\ IF ~isInitialized
       THEN /\ last' = Returned("setMultipleSettings", "false")
            /\ UNCHANGED <<settings, isInitialized, storageInitialized, asyncStorage,
                           call, events, faults, written, saveFailed, beforeRestart, before>>
       ELSE /\ Idle
            /\ IF ~validateSettings(Obj(Spread(settings, partial))).isValid
               THEN /\ last' = Returned("setMultipleSettings", "false")
                    /\ UNCHANGED <<settings, call, events, written, beforeRestart, before>>
               ELSE /\ settings' = Spread(settings, partial)
                    /\ call' = [NoCall EXCEPT !.op = "setMultipleSettings",
                                              !.pc = "set", !.attempt = 1,
                                              !.partial = partial,
                                              !.oldSettings = settings]
                    /\ last' = NoReturn
                    /\ events' = <<>>
                    /\ written' = <<>>
                    /\ beforeRestart' = NotKnown
                    /\ before' = settings
            /\ UNCHANGED <<isInitialized, storageInitialized, asyncStorage, faults,
                           saveFailed>>

\* setMultipleSettings after await this.saveSettings()
setMultipleSettingsResume ==
    /\ UNCHANGED otherVars
    /\ call.op = "setMultipleSettings"
    /\ call.pc = "resume"
    /\ events' = events \o notifyChanged(ObjectKeys(call.partial), call.oldSettings,
                                          settings)
    /\ call' = [call EXCEPT !.pc = "done", !.ret = "true"]
    /\ last' = Returned("setMultipleSettings", "true")
    /\ UNCHANGED <<settings, isInitialized, storageInitialized, asyncStorage, faults,
                   written, saveFailed, beforeRestart, before>>

(***************************************************************************)
(* SettingsManager.resetToDefaults                                         *)
(***************************************************************************)
resetToDefaults ==
    /\ UNCHANGED otherVars
    /\ IF ~isInitialized
       THEN /\ last' = Returned("resetToDefaults", "false")
            /\ UNCHANGED <<settings, isInitialized, storageInitialized, asyncStorage,
                           call, events, faults, written, saveFailed, beforeRestart, before>>
       ELSE /\ Idle
            /\ settings' = defaultSettings
            /\ call' = [NoCall EXCEPT !.op = "resetToDefaults", !.pc = "set",
                                      !.attempt = 1, !.oldSettings = settings]
            /\ last' = NoReturn
            /\ events' = <<>>
            /\ written' = <<>>
            /\ beforeRestart' = NotKnown
            /\ before' = settings
            /\ UNCHANGED <<isInitialized, storageInitialized, asyncStorage, faults,
                           saveFailed>>

\* resetToDefaults notifying every field, changed or not
resetToDefaultsResumeAll ==
    /\ UNCHANGED otherVars
    /\ call.op = "resetToDefaults"
    /\ call.pc = "resume"
    /\ events' = events \o [i \in 1..Len(Fields) |->
                              SettingsChangeEvent(Fields[i], call.oldSettings[Fields[i]],
                                                  settings[Fields[i]])]
    /\ call' = [call EXCEPT !.pc = "done", !.ret = "true"]
    /\ last' = Returned("resetToDefaults", "true")
    /\ UNCHANGED <<settings, isInitialized, storageInitialized, asyncStorage, faults,
                   written, saveFailed, beforeRestart, before>>

\* resetToDefaults after await this.saveSettings()
resetToDefaultsResume ==
    /\ UNCHANGED otherVars
    /\ call.op = "resetToDefaults"
    /\ call.pc = "resume"
    /\ events' = events \o notifyChanged(Fields, call.oldSettings, settings)
    /\ call' = [call EXCEPT !.pc = "done", !.ret = "true"]
    /\ last' = Returned("resetToDefaults", "true")
    /\ UNCHANGED <<settings, isInitialized, storageInitialized, asyncStorage, faults,
                   written, saveFailed, beforeRestart, before>>

(***************************************************************************)
(* The process is killed and started again: the singletons are constructed *)
(* anew, AsyncStorage keeps what it holds.  beforeRestart remembers the    *)
(* record of a Ready manager that had no call at an await and no failed    *)
(* save, until the first initialize() after the restart has returned and   *)
(* another call is made.                                                   *)
(***************************************************************************)
Restart ==
    /\ UNCHANGED otherVars
    /\ settings' = defaultSettings
    /\ isInitialized' = FALSE
    /\ storageInitialized' = FALSE
    /\ call' = NoCall
    /\ last' = NoReturn
    /\ events' = <<>>
    /\ written' = <<>>
    /\ saveFailed' = FALSE
    /\ beforeRestart' = IF isInitialized /\ Idle /\ ~saveFailed
                        THEN [known |-> TRUE, settings |-> settings]
                        ELSE NotKnown
    /\ before' = defaultSettings
    /\ UNCHANGED <<asyncStorage, faults>>

Next ==
    \/ initialize
    \/ StorageTestGet
    \/ StorageTestRemove
    \/ StorageGetItem
    \/ StorageGetDelay
    \/ StorageSetItem
    \/ StorageSetDelay
    \/ initializeResume
    \/ \E key \in FieldNames : \E value \in InputsOf(key) : setSetting(key, value)
    \/ setSettingResume
    \/ \E partial \in Partials : setMultipleSettings(partial)
    \/ setMultipleSettingsResume
    \/ resetToDefaults
    \/ resetToDefaultsResume
    \/ Restart

Spec == Init /\ [][Next]_vars

(***************************************************************************)
(* SettingsManager.clearSettings, StorageManager.removeItem.  The manager  *)
(* with clearSettings() among its calls is the specification SpecClear.    *)
(***************************************************************************)
\* clearSettings() up to its first await, inside storageManager.removeItem(): the
\* first attempt of the removal, or the store's initialization when it is not ready
clearSettings ==
    /\ Idle
    /\ call' = [NoCall EXCEPT !.op = "clearSettings",
                              !.pc = IF storageInitialized THEN "remove"
                                     ELSE "lazyTestGet",
                              !.attempt = IF storageInitialized THEN 1 ELSE 0]
    /\ last' = NoReturn
    /\ events' = <<>>
    /\ written' = <<>>
    /\ beforeRestart' = NotKnown
    /\ before' = settings
    /\ UNCHANGED <<settings, isInitialized, storageInitialized, asyncStorage, faults,
                   saveFailed, validatorVars, extensionVars>>

\* removeItem's await this.initialize(): AsyncStorage.getItem('__test__'); its
\* failure is thrown to clearSettings(), whose catch returns false
StorageLazyTestGet ==
    /\ call.pc = "lazyTestGet"
    /\ \/ /\ call' = [call EXCEPT !.pc = "lazyTestRemove"]
          /\ UNCHANGED <<faults, last>>
       \/ /\ MayFail
          /\ faults' = faults + 1
          /\ call' = [call EXCEPT !.pc = "done", !.ret = "false"]
          /\ last' = Returned(call.op, "false")
    /\ UNCHANGED <<settings, isInitialized, storageInitialized, asyncStorage, events,
                   written, saveFailed, beforeRestart, before, validatorVars,
                   extensionVars>>

\* removeItem's await this.initialize(): AsyncStorage.removeItem('__test__'), then
\* StorageManager.isInitialized = true and the first attempt of the removal
StorageLazyTestRemove ==
    /\ call.pc = "lazyTestRemove"
    /\ \/ /\ storageInitialized' = TRUE
          /\ call' = [call EXCEPT !.pc = "remove", !.attempt = 1]
          /\ UNCHANGED <<faults, last>>
       \/ /\ MayFail
          /\ faults' = faults + 1
          /\ call' = [call EXCEPT !.pc = "done", !.ret = "false"]
          /\ last' = Returned(call.op, "false")
          /\ UNCHANGED storageInitialized
    /\ UNCHANGED <<settings, isInitialized, asyncStorage, events, written, saveFailed,
                   beforeRestart, before, validatorVars, extensionVars>>

\* one attempt of removeItem(storageKey): AsyncStorage.removeItem
StorageRemoveItem ==
    /\ call.pc = "remove"
    /\ \/ /\ asyncStorage' = Absent
          /\ call' = [call EXCEPT !.pc = "resume",
                                  !.result = StorageResult(TRUE, NonObj("undefined"))]
          /\ UNCHANGED faults
       \/ /\ MayFail
          /\ faults' = faults + 1
          /\ call' = IF call.attempt < retryAttempts
                     THEN [call EXCEPT !.pc = "removeDelay"]
                     ELSE [call EXCEPT !.pc = "resume",
                                       !.result = StorageResult(FALSE, NonObj("undefined"))]
          /\ UNCHANGED asyncStorage
    /\ UNCHANGED <<settings, isInitialized, storageInitialized, last, events, written,
                   saveFailed, beforeRestart, before, validatorVars, extensionVars>>

\* await this.delay(retryDelay) between two attempts of removeItem
StorageRemoveDelay ==
    /\ call.pc = "removeDelay"
    /\ call' = [call EXCEPT !.pc = "remove", !.attempt = call.attempt + 1]
    /\ UNCHANGED <<settings, isInitialized, storageInitialized, asyncStorage, last,
                   events, faults, written, saveFailed, beforeRestart, before,
                   validatorVars, extensionVars>>

\* clearSettings() returning true whatever removeItem() gave
clearSettingsResumeAlways ==
    /\ call.op = "clearSettings"
    /\ call.pc = "resume"
    /\ call' = [call EXCEPT !.pc = "done", !.ret = "true"]
    /\ last' = Returned("clearSettings", "true")
    /\ cleared' = TRUE
    /\ UNCHANGED <<settings, isInitialized, storageInitialized, asyncStorage, events,
                   faults, written, saveFailed, beforeRestart, before, validatorVars,
                   storeVars, listenerVars, overlapVars, componentVars, nativeVars>>

\* clearSettings() after await storageManager.removeItem(): return result.success
clearSettingsResume ==
    /\ call.op = "clearSettings"
    /\ call.pc = "resume"
    /\ call' = [call EXCEPT !.pc = "done",
                            !.ret = IF call.result.success THEN "true" ELSE "false"]
    /\ last' = Returned("clearSettings",
                        IF call.result.success THEN "true" ELSE "false")
    /\ cleared' = (cleared \/ call.result.success)
    /\ UNCHANGED <<settings, isInitialized, storageInitialized, asyncStorage, events,
                   faults, written, saveFailed, beforeRestart, before, validatorVars,
                   storeVars, listenerVars, overlapVars, componentVars, nativeVars>>

\* the settings that are set before and after a clearSettings()
ClearInputs ==
    { <<"volume", Num(0)>>, <<"boost", Num(200)>>, <<"gradualBoost", Bool(TRUE)>> }

NextClear ==
    \/ initialize
    \/ StorageTestGet
    \/ StorageTestRemove
    \/ StorageGetItem
    \/ StorageGetDelay
    \/ StorageSetItem
    \/ StorageSetDelay
    \/ initializeResume
    \/ \E input \in ClearInputs : setSetting(input[1], input[2])
    \/ setSettingResume
    \/ Restart
    \/ clearSettings
    \/ StorageLazyTestGet
    \/ StorageLazyTestRemove
    \/ StorageRemoveItem
    \/ StorageRemoveDelay
    \/ clearSettingsResume

SpecClear == Init /\ [][NextClear]_vars

(***************************************************************************)
(* The StorageManager called on its own (specification SpecStore): one     *)
(* call at a time of initialize, setItem, getItem, removeItem, getAllKeys  *)
(* or clearAll, with the one key storageKey.  storeLog lists what the call *)
(* has asked of AsyncStorage, with the outcome, and the delays it waited.  *)
(***************************************************************************)
testKey == "__test__"

\* the values handed to setItem
StoreValues == {defaultSettings, [defaultSettings EXCEPT !.volume = NaN]}

\* the variables of the SettingsManager, which a call to the store leaves alone
settingsVars ==
    <<settings, isInitialized, call, last, events, written, saveFailed, beforeRestart,
      before, validatorVars, cleared, listenerVars, overlapVars, componentVars,
      nativeVars>>

Asked(op, key, ok) == [op |-> op, key |-> key, ok |-> ok]

Delayed == [op |-> "delay", key |-> "", ok |-> TRUE]

StoreIdle == store.pc \in {"idle", "done", "thrown"}

\* a call up to its first await: the first attempt, or initialize() first when
\* the store is not ready
StoreBegin(op, value) ==
    /\ StoreIdle
    /\ store' = [NoStoreCall EXCEPT !.op = op, !.value = value,
                                    !.lazy = ~storageInitialized,
                                    !.pc = IF storageInitialized THEN "attempt"
                                           ELSE "testGet",
                                    !.attempt = IF storageInitialized THEN 1 ELSE 0]
    /\ storeLog' = <<>>
    /\ UNCHANGED <<storageInitialized, asyncStorage, faults, settingsVars>>

\* StorageManager.initialize() called by the client
storeInitialize ==
    /\ StoreIdle
    /\ store' = [NoStoreCall EXCEPT !.op = "initialize", !.pc = "testGet"]
    /\ storeLog' = <<>>
    /\ UNCHANGED <<storageInitialized, asyncStorage, faults, settingsVars>>

setItem(value) == StoreBegin("setItem", value)

getItem == StoreBegin("getItem", defaultSettings)

removeItem == StoreBegin("removeItem", defaultSettings)

getAllKeys == StoreBegin("getAllKeys", defaultSettings)

clearAll == StoreBegin("clearAll", defaultSettings)

\* initialize(): await AsyncStorage.getItem('__test__'); a failure is rethrown
StoreTestGet ==
    /\ store.pc = "testGet"
    /\ \/ /\ store' = [store EXCEPT !.pc = "testRemove"]
          /\ storeLog' = Append(storeLog, Asked("getItem", testKey, TRUE))
          /\ UNCHANGED faults
       \/ /\ MayFail
          /\ faults' = faults + 1
          /\ store' = [store EXCEPT !.pc = "thrown"]
          /\ storeLog' = Append(storeLog, Asked("getItem", testKey, FALSE))
    /\ UNCHANGED <<storageInitialized, asyncStorage, settingsVars>>

\* initialize(): await AsyncStorage.removeItem('__test__'), then isInitialized =
\* true; the call that was waiting for it makes its first attempt
StoreTestRemove ==
    /\ store.pc = "testRemove"
    /\ \/ /\ storageInitialized' = TRUE
          /\ store' = IF store.op = "initialize"
                      THEN [store EXCEPT !.pc = "done"]
                      ELSE [store EXCEPT !.pc = "attempt", !.attempt = 1]
          /\ storeLog' = Append(storeLog, Asked("removeItem", testKey, TRUE))
          /\ UNCHANGED faults
       \/ /\ MayFail
          /\ faults' = faults + 1
          /\ store' = [store EXCEPT !.pc = "thrown"]
          /\ storeLog' = Append(storeLog, Asked("removeItem", testKey, FALSE))
          /\ UNCHANGED storageInitialized
    /\ UNCHANGED <<asyncStorage, settingsVars>>

\* what AsyncStorage holds after a successful attempt of the call
StoredAfter ==
    CASE store.op = "setItem" -> JSONstringify(store.value)
      [] store.op \in {"removeItem", "clearAll"} -> Absent
      [] OTHER -> asyncStorage

\* what a successful attempt of the call returns
SuccessOf ==
    CASE store.op = "getItem" -> GetItemFound(asyncStorage)
      [] store.op = "getAllKeys" ->
             StorageResult(TRUE, IF asyncStorage = Absent THEN NonObj("noKeys")
                                 ELSE NonObj("oneKey"))
      [] OTHER -> StorageResult(TRUE, NonObj("undefined"))

\* setItem, getItem and removeItem try again; getAllKeys and clearAll do not
Retries == store.op \in {"setItem", "getItem", "removeItem"}

\* one attempt: the AsyncStorage call, with JSON.stringify before it or JSON.parse
\* after it
StoreAttempt ==
    /\ store.pc = "attempt"
    /\ \/ /\ ~(store.op = "getItem" /\ asyncStorage = Corrupt)
          /\ asyncStorage' = StoredAfter
          /\ store' = [store EXCEPT !.pc = "done", !.result = SuccessOf]
          /\ storeLog' = Append(storeLog, Asked(store.op, storageKey, TRUE))
          /\ UNCHANGED faults
       \/ /\ \/ store.op = "getItem" /\ asyncStorage = Corrupt /\ UNCHANGED faults
             \/ MayFail /\ faults' = faults + 1
          /\ store' = IF Retries /\ store.attempt < retryAttempts
                      THEN [store EXCEPT !.pc = "delay"]
                      ELSE [store EXCEPT !.pc = "done",
                                         !.result = StorageResult(FALSE,
                                                                  NonObj("undefined"))]
          /\ storeLog' = Append(storeLog, Asked(store.op, storageKey, FALSE))
          /\ UNCHANGED asyncStorage
    /\ UNCHANGED <<storageInitialized, settingsVars>>

\* await this.delay(retryDelay), then the next attempt
StoreDelay ==
    /\ store.pc = "delay"
    /\ store' = [store EXCEPT !.pc = "attempt", !.attempt = store.attempt + 1]
    /\ storeLog' = Append(storeLog, Delayed)
    /\ UNCHANGED <<storageInitialized, asyncStorage, faults, settingsVars>>

NextStore ==
    \/ storeInitialize
    \/ \E value \in StoreValues : setItem(value)
    \/ getItem
    \/ removeItem
    \/ getAllKeys
    \/ clearAll
    \/ StoreTestGet
    \/ StoreTestRemove
    \/ StoreAttempt
    \/ StoreDelay

SpecStore == Init /\ [][NextStore]_vars

(***************************************************************************)
(* SettingsManager.addChangeListener, removeChangeListener and             *)
(* notifyChangeListeners on their own (specification SpecListeners).  A    *)
(* listener is client code: "plain" returns, "throws" throws, and "once"   *)
(* removes itself when it is called.                                       *)
(***************************************************************************)
MaxListeners == 3

Listeners == {"plain", "throws", "once"}

\* the events notifyChangeListeners is called with
NotifiedEvents == {"volume", "boost"}

\* listeners.indexOf(listener), counted from 1; 0 when it is not there
RECURSIVE IndexOf(_, _)
IndexOf(listeners, listener) ==
    IF listeners = <<>> THEN 0
    ELSE IF Head(listeners) = listener THEN 1
    ELSE IF IndexOf(Tail(listeners), listener) = 0 THEN 0
    ELSE 1 + IndexOf(Tail(listeners), listener)

\* const index = listeners.indexOf(listener); if (index > -1) splice(index, 1)
Removed(listeners, listener) ==
    IF IndexOf(listeners, listener) = 0 THEN listeners
    ELSE SubSeq(listeners, 1, IndexOf(listeners, listener) - 1)
         \o SubSeq(listeners, IndexOf(listeners, listener) + 1, Len(listeners))

\* the listeners after the listener at index k has been called
AfterCall(listeners, k) ==
    IF listeners[k] = "once" THEN Removed(listeners, "once") ELSE listeners

\* changeListeners.forEach from index k on: the indices 1..len, len being the
\* length when forEach was called, are visited in order and an index the array no
\* longer has is skipped; an exception of a listener is caught.  The result is
\* the array after the loop and the listeners that were called.
RECURSIVE ForEach(_, _, _, _)
ForEach(listeners, k, len, called) ==
    IF k > len THEN [listeners |-> listeners, called |-> called]
    ELSE IF k > Len(listeners) THEN ForEach(listeners, k + 1, len, called)
    ELSE ForEach(AfterCall(listeners, k), k + 1, len, Append(called, listeners[k]))

addChangeListener(listener) ==
    /\ Len(changeListeners) < MaxListeners
    /\ changeListeners' = Append(changeListeners, listener)
    /\ UNCHANGED <<emitted, delivered, managerVars, validatorVars, cleared, storeVars,
                   overlapVars, componentVars, nativeVars>>

removeChangeListener(listener) ==
    /\ changeListeners' = Removed(changeListeners, listener)
    /\ UNCHANGED <<emitted, delivered, managerVars, validatorVars, cleared, storeVars,
                   overlapVars, componentVars, nativeVars>>

notifyChangeListeners(event) ==
    /\ emitted' = [event |-> event, listeners |-> changeListeners]
    /\ changeListeners' =
           ForEach(changeListeners, 1, Len(changeListeners), <<>>).listeners
    /\ delivered' = ForEach(changeListeners, 1, Len(changeListeners), <<>>).called
    /\ UNCHANGED <<managerVars, validatorVars, cleared, storeVars, overlapVars,
                   componentVars, nativeVars>>

NextListeners ==
    \/ \E listener \in Listeners : addChangeListener(listener)
    \/ \E listener \in Listeners : removeChangeListener(listener)
    \/ \E event \in NotifiedEvents : notifyChangeListeners(event)

SpecListeners == Init /\ [][NextListeners]_vars

(***************************************************************************)
(* Calls of setSetting, setMultipleSettings and resetToDefaults that       *)
(* overlap (specification SpecOverlap).  A call runs to its first await     *)
(* without interruption: it validates, changes this.settings and, the      *)
(* store being initialized, makes the first attempt of setItem, whose      *)
(* JSON.stringify and AsyncStorage.setItem are issued in that same step.   *)
(* AsyncStorage carries out the writes in the order they were issued.      *)
(* setItem holds a reference to the object it was given: setSetting        *)
(* changes that object in place, setMultipleSettings and resetToDefaults   *)
(* make this.settings refer to a new one.                                  *)
(***************************************************************************)
OverlapInputs == {<<"volume", Num(0)>>, <<"boost", Num(200)>>}

OverlapPartials == {<< <<"volume", Num(0)>>, <<"boostEnabled", Bool(TRUE)>> >>}

\* what the overlapping calls leave alone
overlapFrame ==
    <<isInitialized, storageInitialized, call, written, saveFailed, beforeRestart,
      before, validatorVars, cleared, storeVars, listenerVars, nativeVars>>

\* what a call changes before its await: the record in memory, the document
\* stored, the faults so far and the calls at an await
ManagerState ==
    [settings |-> settings, asyncStorage |-> asyncStorage, faults |-> faults,
     inflight |-> inflight]

\* the outcomes the next AsyncStorage call can have: TRUE is success
Outcomes(st) == IF st.faults < MaxFaults THEN BOOLEAN ELSE {TRUE}

\* this.settings = {...}: the calls at an await keep the object there was
Detached(st) ==
    [slot \in Slots |->
        IF st.inflight[slot].live
        THEN [st.inflight[slot] EXCEPT !.live = FALSE, !.value = st.settings]
        ELSE st.inflight[slot]]

\* one attempt of StorageManager.setItem for the call in slot: content is what
\* JSON.stringify(value) reads now, ok the outcome of AsyncStorage.setItem
SetItemAttempt(st, slot, content, attempt, ok) ==
    IF ok
    THEN [st EXCEPT !.asyncStorage = JSONstringify(content),
                    !.inflight[slot].pc = "resume",
                    !.inflight[slot].attempt = attempt,
                    !.inflight[slot].saved = "success",
                    !.inflight[slot].live = FALSE,
                    !.inflight[slot].value = defaultSettings]
    ELSE IF attempt < retryAttempts
    THEN [st EXCEPT !.faults = @ + 1,
                    !.inflight[slot].pc = "delay",
                    !.inflight[slot].attempt = attempt]
    ELSE [st EXCEPT !.faults = @ + 1,
                    !.inflight[slot].pc = "resume",
                    !.inflight[slot].attempt = attempt,
                    !.inflight[slot].saved = "failure",
                    !.inflight[slot].live = FALSE,
                    !.inflight[slot].value = defaultSettings]

\* the first slot that is free, 0 when there is none
FirstFree(st) ==
    IF \E slot \in Slots : st.inflight[slot].pc = "free"
    THEN CHOOSE slot \in Slots :
             /\ st.inflight[slot].pc = "free"
             /\ \A other \in Slots : other < slot => st.inflight[other].pc # "free"
    ELSE 0

\* setSetting on an initialized manager up to the await of the first write, in
\* the first free slot; an invalid value returns false and changes nothing
SetSettingCall(st, key, value, ok) ==
    IF ~validateSettings(Obj(WithField(st.settings, key, value))).isValid
    THEN st
    ELSE SetItemAttempt(
             [st EXCEPT !.settings = WithField(@, key, value),
                        !.inflight[FirstFree(st)] =
                            [FreeSlot EXCEPT !.op = "setSetting", !.live = TRUE,
                                             !.keys = <<key>>,
                                             !.oldValue = st.settings[key],
                                             !.newValue = value]],
             FirstFree(st), WithField(st.settings, key, value), 1, ok)

SetMultipleSettingsCall(st, partial, ok) ==
    IF ~validateSettings(Obj(Spread(st.settings, partial))).isValid
    THEN st
    ELSE SetItemAttempt(
             [st EXCEPT !.settings = Spread(@, partial),
                        !.inflight =
                            [Detached(st) EXCEPT ![FirstFree(st)] =
                                [FreeSlot EXCEPT !.op = "setMultipleSettings",
                                                 !.live = TRUE,
                                                 !.keys = ObjectKeys(partial),
                                                 !.oldSettings = st.settings]]],
             FirstFree(st), Spread(st.settings, partial), 1, ok)

ResetToDefaultsCall(st, ok) ==
    SetItemAttempt(
        [st EXCEPT !.settings = defaultSettings,
                   !.inflight =
                       [Detached(st) EXCEPT ![FirstFree(st)] =
                           [FreeSlot EXCEPT !.op = "resetToDefaults", !.live = TRUE,
                                            !.keys = Fields,
                                            !.oldSettings = st.settings]]],
        FirstFree(st), defaultSettings, 1, ok)

\* the state after the calls of a step
Becomes(st) ==
    /\ settings' = st.settings
    /\ asyncStorage' = st.asyncStorage
    /\ faults' = st.faults
    /\ inflight' = st.inflight

\* a mutating call can start; a call on a manager that is not initialized returns
\* false and changes nothing
CanStart ==
    /\ isInitialized
    /\ storageInitialized
    /\ Idle
    /\ FirstFree(ManagerState) # 0

setSettingOverlapping(key, value) ==
    /\ CanStart
    /\ started < MaxStarted
    /\ \E ok \in Outcomes(ManagerState) :
           Becomes(SetSettingCall(ManagerState, key, value, ok))
    /\ started' = started + 1
    /\ UNCHANGED <<events, last, saveExhausted, overlapFrame, componentVars>>

setMultipleSettingsOverlapping(partial) ==
    /\ CanStart
    /\ started < MaxStarted
    /\ \E ok \in Outcomes(ManagerState) :
           Becomes(SetMultipleSettingsCall(ManagerState, partial, ok))
    /\ started' = started + 1
    /\ UNCHANGED <<events, last, saveExhausted, overlapFrame, componentVars>>

resetToDefaultsOverlapping ==
    /\ CanStart
    /\ started < MaxStarted
    /\ \E ok \in Outcomes(ManagerState) :
           Becomes(ResetToDefaultsCall(ManagerState, ok))
    /\ started' = started + 1
    /\ UNCHANGED <<events, last, saveExhausted, overlapFrame, componentVars>>

\* the delay is over: the next attempt of setItem stringifies the object it holds
setItemRetry(slot) ==
    /\ inflight[slot].pc = "delay"
    /\ \E ok \in Outcomes(ManagerState) :
           Becomes(SetItemAttempt(ManagerState, slot,
                                  IF inflight[slot].live THEN settings
                                  ELSE inflight[slot].value,
                                  inflight[slot].attempt + 1, ok))
    /\ UNCHANGED <<events, last, saveExhausted, started, overlapFrame, componentVars>>

\* the events the call in slot notifies when saveSettings has returned
NotifiedBy(slot) ==
    IF inflight[slot].op = "setSetting"
    THEN <<SettingsChangeEvent(inflight[slot].keys[1], inflight[slot].oldValue,
                               inflight[slot].newValue)>>
    ELSE notifyChanged(inflight[slot].keys, inflight[slot].oldSettings, settings)

\* saveSettings has returned: the call notifies the listeners and returns true
ResumeCall(slot) ==
    /\ inflight[slot].pc = "resume"
    /\ events' = NotifiedBy(slot)
    /\ last' = Returned(inflight[slot].op, "true")
    /\ saveExhausted' = (saveExhausted \/ inflight[slot].saved = "failure")
    /\ inflight' = [inflight EXCEPT ![slot] = FreeSlot]
    /\ UNCHANGED <<settings, asyncStorage, faults, started, overlapFrame>>

\* no listener is registered
mutatorResume(slot) ==
    /\ ResumeCall(slot)
    /\ UNCHANGED componentVars

NextOverlap ==
    \/ (~isInitialized /\ initialize)
    \/ StorageTestGet
    \/ StorageTestRemove
    \/ StorageGetItem
    \/ StorageGetDelay
    \/ StorageSetItem
    \/ StorageSetDelay
    \/ initializeResume
    \/ \E input \in OverlapInputs : setSettingOverlapping(input[1], input[2])
    \/ \E partial \in OverlapPartials : setMultipleSettingsOverlapping(partial)
    \/ resetToDefaultsOverlapping
    \/ \E slot \in Slots : setItemRetry(slot)
    \/ \E slot \in Slots : mutatorResume(slot)

SpecOverlap == Init /\ [][NextOverlap]_vars

(***************************************************************************)
(* Overlapping setSetting calls on one key (specification SpecSameKey):    *)
(* the calls of SpecOverlap with two values of volume, and a listener that *)
(* receives the events of each call when it returns.                       *)
(***************************************************************************)
SameKeyInputs == {<<"volume", Num(0)>>, <<"volume", Num(50)>>}

NextSameKey ==
    \/ (~isInitialized /\ initialize)
    \/ StorageTestGet
    \/ StorageTestRemove
    \/ StorageGetItem
    \/ StorageGetDelay
    \/ StorageSetItem
    \/ StorageSetDelay
    \/ initializeResume
    \/ \E input \in SameKeyInputs : setSettingOverlapping(input[1], input[2])
    \/ \E slot \in Slots : setItemRetry(slot)
    \/ \E slot \in Slots : mutatorResume(slot)

SpecSameKey == Init /\ [][NextSameKey]_vars

(***************************************************************************)
(* The boost handlers of the VolumeBooster component (specification        *)
(* SpecComponent), on Android.  A handler runs to its first await without  *)
(* interruption; it reads the React state of the render it was made in, so *)
(* a set... call of the same step does not change what it reads.  The user *)
(* acts when the handlers of the previous action have finished.            *)
(***************************************************************************)
\* positions of the boost slider
SliderValues == {Num(47), Num(45)}

\* v ? a : b for a boolean v
IsTrue(v) == v = Bool(TRUE)

\* Math.round(v / 10) * 10, Math.round rounding a half up
RoundToTen(v) == IF v.kind = "number" THEN Num(((v.val + 5) \div 10) * 10) ELSE NaN

\* handleSettingsChange for each event notified, in order
RECURSIVE handleSettingsChange(_, _)
handleSettingsChange(state, notified) ==
    IF notified = <<>> THEN state
    ELSE handleSettingsChange(
             IF Head(notified).key \in {"boost", "gradualBoost", "boostEnabled"}
             THEN [state EXCEPT ![Head(notified).key] = Head(notified).newValue]
             ELSE state,
             Tail(notified))

\* the user can act: the component has loaded the settings and no handler or
\* call of an earlier action is at an await
CanAct ==
    /\ component.loaded
    /\ isInitialized
    /\ storageInitialized
    /\ Idle
    /\ awaiting = <<>>
    /\ \A slot \in Slots : inflight[slot].pc = "free"

componentFrame == <<events, last, saveExhausted, started, overlapFrame>>

\* initializeApp once initializeStorage has returned: the saved settings become
\* the React state, the listener is added and initializeAudio succeeds or throws
initializeApp ==
    /\ ~component.loaded
    /\ isInitialized
    /\ Idle
    /\ \E audio \in BOOLEAN :
           component' = [loaded |-> TRUE, boost |-> settings.boost,
                         gradualBoost |-> settings.gradualBoost,
                         boostEnabled |-> settings.boostEnabled,
                         isInitialized |-> audio]
    /\ UNCHANGED <<awaiting, settings, asyncStorage, faults, inflight, componentFrame>>

\* handleBoostChange(value) called in a render whose state is rendered, from the
\* state st of the manager: the result is the React state, the handlers at an
\* await and the state of the manager when the handler is at its first await
BoostChange(rendered, now, waiting, st, value, ok) ==
    LET boostValue == IF IsTrue(rendered.gradualBoost) THEN value
                      ELSE RoundToTen(value)
    IN  IF IsTrue(rendered.boostEnabled) /\ rendered.isInitialized
        THEN [component |-> [now EXCEPT !.boost = boostValue],
              awaiting |-> Append(waiting, [handler |-> "handleBoostChange",
                                            value |-> boostValue,
                                            level |-> boostValue]),
              manager |-> st]
        ELSE [component |-> [now EXCEPT !.boost = boostValue],
              awaiting |-> waiting,
              manager |-> SetSettingCall(st, "boost", boostValue, ok)]

handleBoostChange(value) ==
    /\ CanAct
    /\ \E ok \in Outcomes(ManagerState) :
           LET after == BoostChange(component, component, awaiting, ManagerState,
                                    value, ok)
           IN  /\ component' = after.component
               /\ awaiting' = after.awaiting
               /\ Becomes(after.manager)
    /\ UNCHANGED componentFrame

\* handleGradualBoostToggle(value): handleBoostChange is called and not awaited,
\* then setSetting('gradualBoost', value) is
handleGradualBoostToggle(value) ==
    /\ CanAct
    /\ \E ok \in Outcomes(ManagerState) :
           LET toggled == [component EXCEPT !.gradualBoost = Bool(value)]
               after ==
                   IF value
                   THEN [component |-> toggled, awaiting |-> awaiting,
                         manager |-> ManagerState]
                   ELSE BoostChange(component,
                                    [toggled EXCEPT
                                        !.boost = RoundToTen(component.boost)],
                                    awaiting, ManagerState,
                                    RoundToTen(component.boost), ok)
           IN  /\ component' = after.component
               /\ awaiting' = after.awaiting
               /\ \E saved \in Outcomes(after.manager) :
                      Becomes(SetSettingCall(after.manager, "gradualBoost",
                                             Bool(value), saved))
    /\ UNCHANGED componentFrame

\* handleBoostEnabledToggle(value)
handleBoostEnabledToggle(value) ==
    /\ CanAct
    /\ component' = [component EXCEPT !.boostEnabled = Bool(value)]
    /\ IF component.isInitialized
       THEN /\ awaiting' = Append(awaiting, [handler |-> "handleBoostEnabledToggle",
                                             value |-> Bool(value),
                                             level |-> IF value THEN component.boost
                                                       ELSE Num(0)])
            /\ UNCHANGED <<settings, asyncStorage, faults, inflight>>
       ELSE /\ \E ok \in Outcomes(ManagerState) :
                   Becomes(SetSettingCall(ManagerState, "boostEnabled", Bool(value),
                                          ok))
            /\ UNCHANGED awaiting
    /\ UNCHANGED componentFrame

\* VolumeBoosterModule.setBoost(level) has returned or thrown, which the
\* handler catches: the handler that awaited it saves its setting
setBoostReturns ==
    /\ awaiting # <<>>
    /\ FirstFree(ManagerState) # 0
    /\ \E ok \in Outcomes(ManagerState) :
           Becomes(SetSettingCall(ManagerState,
                                  IF Head(awaiting).handler = "handleBoostChange"
                                  THEN "boost" ELSE "boostEnabled",
                                  Head(awaiting).value, ok))
    /\ awaiting' = Tail(awaiting)
    /\ UNCHANGED <<component, componentFrame>>

\* a call of setSetting returns: its event reaches handleSettingsChange
mutatorResumeNotifying(slot) ==
    /\ component.loaded
    /\ ResumeCall(slot)
    /\ component' = handleSettingsChange(component, NotifiedBy(slot))
    /\ UNCHANGED awaiting

\* clearAllSettings up to its await of clearSettings()
clearAllSettings ==
    /\ CanAct
    /\ clearSettings

\* clearAllSettings once clearSettings() has returned: on success the React
\* state is set to the defaults
clearAllSettingsResume ==
    /\ component.loaded
    /\ call.op = "clearSettings"
    /\ call.pc = "resume"
    /\ call' = [call EXCEPT !.pc = "done",
                            !.ret = IF call.result.success THEN "true" ELSE "false"]
    /\ last' = Returned("clearSettings",
                        IF call.result.success THEN "true" ELSE "false")
    /\ cleared' = (cleared \/ call.result.success)
    /\ component' = IF call.result.success
                    THEN [component EXCEPT !.boost = Num(0),
                                           !.gradualBoost = Bool(FALSE),
                                           !.boostEnabled = Bool(FALSE)]
                    ELSE component
    /\ UNCHANGED <<settings, isInitialized, storageInitialized, asyncStorage, events,
                   faults, written, saveFailed, beforeRestart, before, validatorVars,
                   storeVars, listenerVars, overlapVars, awaiting, nativeVars>>

NextComponent ==
    \/ (~isInitialized /\ initialize)
    \/ StorageTestGet
    \/ StorageTestRemove
    \/ StorageGetItem
    \/ StorageGetDelay
    \/ StorageSetItem
    \/ StorageSetDelay
    \/ initializeResume
    \/ initializeApp
    \/ \E value \in SliderValues : handleBoostChange(value)
    \/ \E value \in BOOLEAN : handleGradualBoostToggle(value)
    \/ \E value \in BOOLEAN : handleBoostEnabledToggle(value)
    \/ setBoostReturns
    \/ \E slot \in Slots : setItemRetry(slot)
    \/ \E slot \in Slots : mutatorResumeNotifying(slot)
    \/ clearAllSettings
    \/ StorageRemoveItem
    \/ StorageRemoveDelay
    \/ clearAllSettingsResume

SpecComponent == Init /\ [][NextComponent]_vars

(***************************************************************************)
(* VolumeBoosterService on its own (specification SpecService): the        *)
(* commands are the intents onStartCommand handles, one at a time, on the  *)
(* main thread.  An intent for a service that does not exist makes Android *)
(* create it first.  A call of the effect engine may throw: fault names    *)
(* the call that does, "construct" the LoudnessEnhancer constructor and    *)
(* "gain" setTargetGain; a call on a released effect always throws.        *)
(***************************************************************************)
ServiceLevels == {0, 100, 200}

FaultPoints == {"none", "construct", "gain"}

\* isBoostActive()
isBoostActive(svc) == svc.isBoostEnabled /\ svc.currentBoostLevel > 0

getCurrentBoostLevelWhenEnabled(svc) ==
    IF svc.isBoostEnabled THEN svc.currentBoostLevel ELSE 0

\* getCurrentBoostLevel()
getCurrentBoostLevel(svc) == svc.currentBoostLevel

\* isAppOnlyMode()
isAppOnlyMode(svc) == svc.isAppOnlyBoost

\* the notification createNotification() builds
createNotification(svc) ==
    IF isBoostActive(svc)
    THEN [shown |-> TRUE, active |-> TRUE, level |-> svc.currentBoostLevel,
          appOnly |-> svc.isAppOnlyBoost]
    ELSE [shown |-> TRUE, active |-> FALSE, level |-> 0, appOnly |-> FALSE]

updateNotification(svc) ==
    IF isBoostActive(svc) THEN [svc EXCEPT !.notification = createNotification(svc)]
    ELSE svc

\* loudnessEnhancer?.setTargetGain(gain) and ?.setEnabled(enabled) throw
SetGainThrows(enhancer, fault) ==
    \/ enhancer.status = "released"
    \/ enhancer.status = "live" /\ fault = "gain"

SetGainDoubled(enhancer, gain, enabled) ==
    IF enhancer.status = "live"
    THEN [enhancer EXCEPT !.gain = 2 * gain, !.enabled = enabled]
    ELSE enhancer

\* loudnessEnhancer?.setTargetGain(gain); loudnessEnhancer?.setEnabled(enabled)
SetGain(enhancer, gain, enabled) ==
    IF enhancer.status = "live"
    THEN [enhancer EXCEPT !.gain = gain, !.enabled = enabled]
    ELSE enhancer

\* initializeAudioSystem
initializeAudioSystem(svc, fault) ==
    IF fault = "construct"
    THEN [svc EXCEPT !.audioSessionID = AppSession, !.threw = TRUE]
    ELSE [svc EXCEPT !.audioSessionID = AppSession,
                     !.loudnessEnhancer = LoudnessEnhancer(GlobalSession)]

onCreateKeepingFields(svc, fault) ==
    initializeAudioSystem([svc EXCEPT !.created = TRUE, !.threw = FALSE], fault)

\* onCreate of a new instance
onCreate(svc, fault) ==
    initializeAudioSystem(
        [NoService EXCEPT !.created = TRUE, !.restarted = svc.restarted], fault)

\* setBoost(boostLevel, appOnly) of the service
ServiceSetBoost(svc, boostLevel, appOnly, fault) ==
    LET assigned == [svc EXCEPT !.currentBoostLevel = boostLevel,
                                !.isAppOnlyBoost = appOnly, !.threw = FALSE]
        made == [assigned EXCEPT !.loudnessEnhancer =
                     LoudnessEnhancer(IF appOnly THEN svc.audioSessionID
                                      ELSE GlobalSession)]
    IN  IF fault = "construct"
        THEN [assigned EXCEPT !.loudnessEnhancer = Release(svc.loudnessEnhancer),
                              !.threw = TRUE]
        ELSE IF svc.isBoostEnabled /\ boostLevel > 0
        THEN IF SetGainThrows(made.loudnessEnhancer, fault)
             THEN [made EXCEPT !.threw = TRUE]
             ELSE updateNotification(
                      [made EXCEPT !.loudnessEnhancer =
                          SetGain(made.loudnessEnhancer,
                                  boostLevel * MillibelsPerPercent, TRUE)])
        ELSE updateNotification(made)

ServiceEnableBoostToggling(svc, enabled, fault) ==
    [svc EXCEPT !.isBoostEnabled = ~svc.isBoostEnabled, !.threw = FALSE]

\* enableBoost(enabled) of the service
ServiceEnableBoost(svc, enabled, fault) ==
    LET assigned == [svc EXCEPT !.isBoostEnabled = enabled, !.threw = FALSE]
    IN  IF SetGainThrows(svc.loudnessEnhancer, fault)
        THEN [assigned EXCEPT !.threw = TRUE]
        ELSE IF enabled /\ svc.currentBoostLevel > 0
        THEN updateNotification(
                 [assigned EXCEPT !.loudnessEnhancer =
                     SetGain(svc.loudnessEnhancer,
                             svc.currentBoostLevel * MillibelsPerPercent, TRUE)])
        ELSE updateNotification(
                 [assigned EXCEPT !.loudnessEnhancer =
                     SetGain(svc.loudnessEnhancer, 0, FALSE)])

\* the service an intent is delivered to: Android creates it when there is none
Delivered(svc, fault) == IF svc.created THEN svc ELSE onCreate(svc, fault)

\* the command and the fields before it, kept for the properties
Handled(svc, earlier, command) ==
    [svc EXCEPT !.command = command,
                !.faulted = (svc.faulted \/ svc.threw),
                !.prior = [isBoostEnabled |-> earlier.isBoostEnabled,
                           isAppOnlyBoost |-> earlier.isAppOnlyBoost,
                           currentBoostLevel |-> earlier.currentBoostLevel]]

serviceFrame ==
    <<managerVars, validatorVars, cleared, storeVars, listenerVars, overlapVars,
      componentVars, monitor>>

startServiceMaxVolume ==
    /\ service' =
           Handled([Delivered(service, "none") EXCEPT !.foreground = TRUE],
                   Delivered(service, "none"), [NoCommand EXCEPT !.cmd = "start"])
    /\ streamVolume' = MaxVolume
    /\ UNCHANGED <<module, serviceFrame>>

\* onStartCommand: ACTION_START_SERVICE
startService ==
    /\ \E fault \in {"none", "construct"} :
           service' =
               Handled([Delivered(service, fault) EXCEPT
                            !.foreground = TRUE,
                            !.notification =
                                createNotification(Delivered(service, fault))],
                       Delivered(service, fault),
                       [NoCommand EXCEPT !.cmd = "start"])
    /\ UNCHANGED <<module, streamVolume, serviceFrame>>

\* cleanupAudioResources
cleanupAudioResources(svc) ==
    [svc EXCEPT !.loudnessEnhancer =
        IF Release(svc.loudnessEnhancer).status = "released" THEN NoEnhancer
        ELSE svc.loudnessEnhancer]

\* the instance is no more: its fields are what they were, nothing reads them
Gone(svc, how) ==
    [svc EXCEPT !.created = FALSE, !.foreground = FALSE,
                !.notification = NoNotification, !.threw = FALSE,
                !.command = [NoCommand EXCEPT !.cmd = how],
                !.restarted = (svc.restarted
                               \/ svc.command.cmd \in {"setBoost", "enableBoost"})]

\* onStartCommand: ACTION_STOP_SERVICE, stopForeground(true), stopSelf and
\* onDestroy
stopService ==
    /\ service.created
    /\ service' = Gone(cleanupAudioResources(service), "stop")
    /\ UNCHANGED <<module, streamVolume, serviceFrame>>

\* onStartCommand: ACTION_SET_BOOST
serviceSetBoost(boostLevel, appOnly) ==
    /\ \E fault \in FaultPoints :
           service' =
               Handled(ServiceSetBoost(Delivered(service, "none"), boostLevel,
                                       appOnly, fault),
                       Delivered(service, "none"),
                       [NoCommand EXCEPT !.cmd = "setBoost", !.level = boostLevel,
                                         !.appOnly = appOnly])
    /\ UNCHANGED <<module, streamVolume, serviceFrame>>

\* onStartCommand: ACTION_ENABLE_BOOST
serviceEnableBoost(enabled) ==
    /\ \E fault \in {"none", "gain"} :
           service' =
               Handled(ServiceEnableBoost(Delivered(service, "none"), enabled, fault),
                       Delivered(service, "none"),
                       [NoCommand EXCEPT !.cmd = "enableBoost", !.enabled = enabled])
    /\ UNCHANGED <<module, streamVolume, serviceFrame>>

\* Android kills the process of the service: its effect goes with it, and
\* START_STICKY makes Android create the service again later
serviceKilled ==
    /\ service.created
    /\ service' = Gone([service EXCEPT !.loudnessEnhancer = NoEnhancer], "killed")
    /\ UNCHANGED <<module, streamVolume, serviceFrame>>

\* the restart after a kill: onCreate and onStartCommand with a null intent
serviceRestarted ==
    /\ ~service.created
    /\ service.command.cmd = "killed"
    /\ \E fault \in {"none", "construct"} :
           service' = Handled(onCreate(service, fault), onCreate(service, fault),
                              [NoCommand EXCEPT !.cmd = "restart"])
    /\ UNCHANGED <<module, streamVolume, serviceFrame>>

\* the user changes the volume with the keys of the device
volumeKeys(volume) ==
    /\ streamVolume' = volume
    /\ UNCHANGED <<service, module, serviceFrame>>

NextService ==
    \/ startService
    \/ stopService
    \/ \E boostLevel \in ServiceLevels, appOnly \in BOOLEAN :
           serviceSetBoost(boostLevel, appOnly)
    \/ \E enabled \in BOOLEAN : serviceEnableBoost(enabled)
    \/ serviceKilled
    \/ serviceRestarted
    \/ \E volume \in StreamVolumes : volumeKeys(volume)

\* the settings take no part: the store is the one of a first start
InitNative ==
    /\ Init
    /\ asyncStorage = Absent

SpecService == InitNative /\ [][NextService]_vars

(***************************************************************************)
(* VolumeBoosterModule, the native module the component calls, with its    *)
(* own effect (the foreground engine) and the bound VolumeBoosterService.  *)
(* switchedOff remembers that the latest setBoostEnabled on the foreground *)
(* engine was setBoostEnabled(false); connecting is a bindService whose    *)
(* onServiceConnected has not run yet.                                     *)
(***************************************************************************)
moduleFrame == <<serviceFrame, streamVolume>>

\* isBackgroundModeEnabled && isServiceBound && volumeBoosterService != null
UsesService(mod) == mod.isBackgroundModeEnabled /\ mod.isServiceBound

Called(mod, cmd) == [mod EXCEPT !.command = [NoCommand EXCEPT !.cmd = cmd]]

\* initializeAudio
initializeAudio ==
    /\ ~module.initialized
    /\ module' = Called([module EXCEPT !.initialized = TRUE,
                                       !.audioSessionID = AppSession,
                                       !.loudnessEnhancer = LoudnessEnhancer(GlobalSession)],
                        "initializeAudio")
    /\ UNCHANGED <<service, moduleFrame>>

\* setVolume(volume): the only call that sets the stream volume
setVolume(volume) ==
    /\ module.initialized
    /\ streamVolume' = volume
    /\ module' = Called(module, "setVolume")
    /\ UNCHANGED <<service, serviceFrame>>

\* restartAudioPlayback
restartAudioPlayback(mod) == [mod EXCEPT !.isBoostEnabled = FALSE]

\* setBoost(boostLevel) of the module
ModuleSetBoost(mod, boostLevel) ==
    LET tracked == [mod EXCEPT !.currentBoostLevel = boostLevel]
        made == LoudnessEnhancer(IF mod.isAppOnlyBoost THEN mod.audioSessionID
                                 ELSE GlobalSession)
        applied == [tracked EXCEPT !.loudnessEnhancer =
                        SetGain(made, boostLevel * MillibelsPerPercent, TRUE)]
    IN  IF mod.isBoostEnabled THEN restartAudioPlayback(applied) ELSE applied

setBoost(boostLevel) ==
    /\ module.initialized
    /\ IF UsesService(module)
       THEN /\ module' = Called([module EXCEPT !.currentBoostLevel = boostLevel],
                                "setBoost")
            /\ service' =
                   Handled(ServiceSetBoost(service, boostLevel,
                                           module.isAppOnlyBoost, "none"),
                           service,
                           [NoCommand EXCEPT !.cmd = "setBoost",
                                             !.level = boostLevel,
                                             !.appOnly = module.isAppOnlyBoost])
       ELSE /\ module' = Called(ModuleSetBoost(module, boostLevel), "setBoost")
            /\ UNCHANGED service
    /\ UNCHANGED moduleFrame

\* setBoostEnabled(enabled) of the module
ModuleSetBoostEnabled(mod, enabled) ==
    [mod EXCEPT !.isBoostEnabled = enabled,
                !.switchedOff = ~enabled,
                !.loudnessEnhancer =
                    IF mod.loudnessEnhancer.status # "live" THEN @
                    ELSE IF ~enabled THEN SetGain(@, 0, FALSE)
                    ELSE [@ EXCEPT !.enabled = TRUE]]

setBoostEnabled(enabled) ==
    /\ module.initialized
    /\ IF UsesService(module)
       THEN /\ module' = Called([module EXCEPT !.isBoostEnabled = enabled,
                                               !.switchedOff = FALSE],
                                "setBoostEnabled")
            /\ service' =
                   Handled(ServiceEnableBoost(service, enabled, "none"), service,
                           [NoCommand EXCEPT !.cmd = "enableBoost",
                                             !.enabled = enabled])
       ELSE /\ module' = Called(ModuleSetBoostEnabled(module, enabled),
                                "setBoostEnabled")
            /\ UNCHANGED service
    /\ UNCHANGED moduleFrame

\* setAppOnlyBoost(enabled) of the module
setAppOnlyBoost(enabled) ==
    /\ module.initialized
    /\ IF UsesService(module)
       THEN /\ module' = Called([module EXCEPT !.isAppOnlyBoost = enabled],
                                "setAppOnlyBoost")
            /\ service' =
                   Handled(ServiceSetBoost(service, module.currentBoostLevel,
                                           enabled, "none"),
                           service,
                           [NoCommand EXCEPT !.cmd = "setBoost",
                                             !.level = module.currentBoostLevel,
                                             !.appOnly = enabled])
       ELSE /\ module' =
                   Called([module EXCEPT
                               !.isAppOnlyBoost = enabled,
                               !.loudnessEnhancer =
                                   LoudnessEnhancer(IF enabled
                                                    THEN module.audioSessionID
                                                    ELSE GlobalSession)],
                          "setAppOnlyBoost")
            /\ UNCHANGED service
    /\ UNCHANGED moduleFrame

\* setBackgroundMode(enabled): startService and bindService, or stopService
\* and, only if the connection has been made, unbindService.  A service that
\* is still bound outlives its stopSelf.
setBackgroundMode(enabled) ==
    /\ IF enabled
       THEN /\ service' =
                   Handled([Delivered(service, "none") EXCEPT !.foreground = TRUE],
                           Delivered(service, "none"),
                           [NoCommand EXCEPT !.cmd = "start"])
            /\ module' = Called([module EXCEPT
                                     !.isBackgroundModeEnabled = TRUE,
                                     !.switchedOff = FALSE,
                                     !.connecting = ~module.isServiceBound],
                                "setBackgroundMode")
       ELSE /\ service' =
                   IF module.connecting /\ ~module.isServiceBound /\ service.created
                   THEN Handled([service EXCEPT !.foreground = FALSE,
                                                !.notification = NoNotification],
                                service, [NoCommand EXCEPT !.cmd = "stop"])
                   ELSE Gone(cleanupAudioResources(service), "stop")
            /\ module' = Called([module EXCEPT
                                     !.isBackgroundModeEnabled = FALSE,
                                     !.isServiceBound = FALSE,
                                     !.connecting =
                                         module.connecting /\ ~module.isServiceBound],
                                "setBackgroundMode")
    /\ UNCHANGED moduleFrame

\* serviceConnection.onServiceConnected
onServiceConnected ==
    /\ module.connecting
    /\ service.created
    /\ module' = Called([module EXCEPT !.isServiceBound = TRUE,
                                       !.connecting = FALSE],
                        "onServiceConnected")
    /\ UNCHANGED <<service, moduleFrame>>

NextModule ==
    \/ initializeAudio
    \/ \E volume \in StreamVolumes : setVolume(volume)
    \/ \E boostLevel \in ServiceLevels : setBoost(boostLevel)
    \/ \E enabled \in BOOLEAN : setBoostEnabled(enabled)
    \/ \E enabled \in BOOLEAN : setAppOnlyBoost(enabled)
    \/ \E enabled \in BOOLEAN : setBackgroundMode(enabled)
    \/ onServiceConnected

SpecModule == InitNative /\ [][NextModule]_vars

(***************************************************************************)
(* Device and volume monitoring of the module (specification SpecMonitor). *)
(* Each start method posts a Runnable on the one Handler of the module,    *)
(* on the main looper; a Runnable checks, emits and posts itself again.    *)
(* The React methods run on another thread, so a stop can come while a     *)
(* Runnable runs: queue holds the Runnables posted, running the one the    *)
(* main thread is in.  deviceWanted and volumeWanted remember the latest   *)
(* start or stop of each monitoring.                                       *)
(***************************************************************************)
Devices == {0, 1, 2}

monitorFrame ==
    <<managerVars, validatorVars, cleared, storeVars, listenerVars, overlapVars,
      componentVars, service, module>>

\* startDeviceMonitoring
startDeviceMonitoring ==
    /\ ~monitor.deviceWanted
    /\ "device" \notin monitor.queue /\ monitor.running # "device"
    /\ monitor' = [monitor EXCEPT !.queue = @ \cup {"device"},
                                  !.deviceWanted = TRUE]
    /\ UNCHANGED <<streamVolume, monitorFrame>>

\* startVolumeMonitoring
startVolumeMonitoring ==
    /\ ~monitor.volumeWanted
    /\ "volume" \notin monitor.queue /\ monitor.running # "volume"
    /\ monitor' = [monitor EXCEPT !.queue = @ \cup {"volume"},
                                  !.volumeWanted = TRUE]
    /\ UNCHANGED <<streamVolume, monitorFrame>>

\* handler.removeCallbacksAndMessages(null)
removeCallbacksAndMessages(mon) == [mon EXCEPT !.queue = {}]

\* stopDeviceMonitoring
stopDeviceMonitoring ==
    /\ monitor' = [removeCallbacksAndMessages(monitor) EXCEPT !.deviceWanted = FALSE]
    /\ UNCHANGED <<streamVolume, monitorFrame>>

\* stopVolumeMonitoring
stopVolumeMonitoring ==
    /\ monitor' = [removeCallbacksAndMessages(monitor) EXCEPT !.volumeWanted = FALSE]
    /\ UNCHANGED <<streamVolume, monitorFrame>>

\* the main thread takes a Runnable that is due
runBegins(runnable) ==
    /\ monitor.running = "none"
    /\ runnable \in monitor.queue
    /\ monitor' = [monitor EXCEPT !.queue = @ \ {runnable}, !.running = runnable]
    /\ UNCHANGED <<streamVolume, monitorFrame>>

\* run() of the Runnable of startDeviceMonitoring
DeviceRun(mon) ==
    IF mon.activeDevice = mon.lastDeviceId THEN mon
    ELSE [mon EXCEPT !.lastDeviceId = mon.activeDevice,
                     !.audioDeviceChanged = mon.activeDevice]

\* run() of the Runnable of startVolumeMonitoring
VolumeRun(mon, volume) ==
    IF Percentage(volume) # mon.lastVolumeLevel
    THEN [mon EXCEPT !.lastVolumeLevel = Percentage(volume),
                     !.volumeChanged = Percentage(volume)]
    ELSE mon

\* the Runnable checks, emits and ends with handler.postDelayed(this, ..)
runEnds ==
    /\ monitor.running # "none"
    /\ monitor' = [(IF monitor.running = "device" THEN DeviceRun(monitor)
                    ELSE VolumeRun(monitor, streamVolume))
                       EXCEPT !.queue = @ \cup {monitor.running},
                              !.running = "none"]
    /\ UNCHANGED <<streamVolume, monitorFrame>>

\* the output device changes
deviceChanges(device) ==
    /\ device # monitor.activeDevice
    /\ monitor' = [monitor EXCEPT !.activeDevice = device]
    /\ UNCHANGED <<streamVolume, monitorFrame>>

NextMonitor ==
    \/ startDeviceMonitoring
    \/ startVolumeMonitoring
    \/ stopDeviceMonitoring
    \/ stopVolumeMonitoring
    \/ \E runnable \in {"device", "volume"} : runBegins(runnable)
    \/ runEnds
    \/ \E device \in Devices : deviceChanges(device)
    \/ \E volume \in StreamVolumes : volumeKeys(volume)

SpecMonitor == InitNative /\ [][NextMonitor]_vars

(***************************************************************************)
(* validateSettings on its own: every candidate of Candidates is validated *)
(* once.                                                                   *)
(***************************************************************************)
CandidateVolumes == VolumeInputs \cup {Num(50), Null}

CandidateBoosts == BoostInputs \cup {Num(120), NaN, Undefined}

CandidateBooleans == BooleanInputs \cup {Undefined}

Candidates ==
    { NonObj("null"), NonObj("undefined"), NonObj("string"), NonObj("number") }
    \cup { Obj([volume |-> v, boost |-> b, gradualBoost |-> g, appOnlyBoost |-> a,
                boostEnabled |-> e, autoVolumeEnabled |-> u]) :
             v \in CandidateVolumes, b \in CandidateBoosts,
             g \in CandidateBooleans, a \in CandidateBooleans,
             e \in CandidateBooleans, u \in CandidateBooleans }

InitValidate ==
    /\ settings = defaultSettings
    /\ isInitialized = FALSE
    /\ storageInitialized = FALSE
    /\ asyncStorage = Absent
    /\ call = NoCall
    /\ last = NoReturn
    /\ events = <<>>
    /\ faults = 0
    /\ written = <<>>
    /\ saveFailed = FALSE
    /\ beforeRestart = NotKnown
    /\ before = defaultSettings
    /\ candidate \in Candidates
    /\ validation = NotValidated
    /\ ExtensionInit

Validate ==
    /\ validation = NotValidated
    /\ validation' = validateSettings(candidate)
    /\ UNCHANGED <<candidate, managerVars, extensionVars>>

NextValidate == Validate

SpecValidate == InitValidate /\ [][NextValidate]_vars

(***************************************************************************)
(* What the specification calls a valid record.                            *)
(***************************************************************************)
\* v is a number in [lo, hi]
NumberIn(v, lo, hi) == v.kind = "number" /\ lo <= v.val /\ v.val <= hi

IsBoolean(v) == v.kind = "boolean"

\* value is in the domain of field key
ValidFor(key, value) ==
    CASE key = "volume" -> NumberIn(value, 0, 100)
      [] key = "boost" -> NumberIn(value, 0, 200)
      [] OTHER -> IsBoolean(value)

\* all six fields are present with their types and ranges
IsAppSettings(rec) == \A f \in FieldNames : ValidFor(f, rec[f])

(***************************************************************************)
(* C1 -- validation accepts a candidate if and only if it is an object     *)
(* whose volume is a number in [0,100], whose boost is a number in [0,200] *)
(* and whose four flags are booleans.  (SpecValidate)                      *)
(* Violated: typeof NaN is "number" and NaN is neither < 0 nor > 100, so   *)
(* a record whose volume or boost is NaN is accepted.                      *)
(***************************************************************************)
C1_ValidationIff ==
    validation # NotValidated =>
        (validation.isValid <=> (candidate.kind = "object" /\ IsAppSettings(candidate.rec)))

(***************************************************************************)
(* The change events a call owes: one for each key of keys, in that order, *)
(* whose value in new differs from its value in old.                       *)
(***************************************************************************)
ChangedKeys(keys, old, new) == SelectSeq(keys, LAMBDA k : old[k] # new[k])

ExpectedEvents(keys, old, new) ==
    [i \in 1..Len(ChangedKeys(keys, old, new)) |->
        SettingsChangeEvent(ChangedKeys(keys, old, new)[i],
                            old[ChangedKeys(keys, old, new)[i]],
                            new[ChangedKeys(keys, old, new)[i]])]

\* the latest call is op and has returned
Done(op) == call.op = op /\ call.pc = "done"

\* the one saveSettings() of the returned call stored the in-memory record, or
\* gave up after retryAttempts attempts without storing anything
SavedOnce ==
    \/ /\ call.saved = "success"
       /\ written = <<JSONstringify(settings)>>
       /\ asyncStorage = JSONstringify(settings)
    \/ /\ call.saved = "failure"
       /\ call.attempt = retryAttempts
       /\ written = <<>>

(***************************************************************************)
(* C2 -- In Ready state a setSetting(k, v) whose resulting whole record    *)
(* fails validation (volume 101 or -1, boost 201 or -1 among them) returns *)
(* false and leaves the in-memory record, the persisted record and the     *)
(* delivered events unchanged; volume 0 and 100 and boost 0 and 200 are    *)
(* accepted.                                                               *)
(***************************************************************************)
OutOfRangeInputs ==
    { <<"volume", Num(101)>>, <<"volume", Num(-1)>>, <<"boost", Num(201)>>,
      <<"boost", Num(-1)>> }

BoundaryInputs ==
    { <<"volume", Num(0)>>, <<"volume", Num(100)>>, <<"boost", Num(0)>>,
      <<"boost", Num(200)>> }

Rejected(op) ==
    /\ last' = Returned(op, "false")
    /\ UNCHANGED <<settings, isInitialized, asyncStorage, events, written, call>>

AcceptedSetSetting(key, value) ==
    /\ settings' = WithField(settings, key, value)
    /\ call'.op = "setSetting"
    /\ call'.pc = "set"
    /\ call'.key = key
    /\ call'.value = value

C2_InvalidSetSettingRejected ==
    (isInitialized /\ Idle) =>
        /\ \A key \in FieldNames : \A value \in InputsOf(key) :
              ~validateSettings(Obj(WithField(settings, key, value))).isValid
              => /\ ENABLED setSetting(key, value)
                 /\ ~ENABLED (setSetting(key, value) /\ ~Rejected("setSetting"))
        /\ \A input \in OutOfRangeInputs :
              /\ ENABLED setSetting(input[1], input[2])
              /\ ~ENABLED (setSetting(input[1], input[2]) /\ ~Rejected("setSetting"))
        /\ \A input \in BoundaryInputs :
              /\ ENABLED setSetting(input[1], input[2])
              /\ ~ENABLED (setSetting(input[1], input[2])
                             /\ ~AcceptedSetSetting(input[1], input[2]))

\* a call was rejected in Ready state after a call that had stored a record and
\* notified an event
C2_Witness ==
    /\ isInitialized
    /\ last = Returned("setSetting", "false")
    /\ events # <<>>
    /\ written # <<>>

(***************************************************************************)
(* C3 -- In Ready state every setSetting(k, v) that passes validation      *)
(* returns true, sets in-memory field k to v, writes the whole record to   *)
(* the store and delivers exactly one event with key k, oldValue the       *)
(* previous value and newValue v, also when v equals the previous value.   *)
(***************************************************************************)
C3_SetSettingApplies ==
    Done("setSetting") =>
        /\ call.ret = "true"
        /\ settings[call.key] = call.value
        /\ SavedOnce
        /\ events = <<SettingsChangeEvent(call.key, before[call.key], call.value)>>

\* a setSetting of the value the field already had has returned
C3_Witness ==
    /\ Done("setSetting")
    /\ call.saved = "success"
    /\ before[call.key] = call.value
    /\ Len(events) = 1

(***************************************************************************)
(* C4 -- Round trip: in Ready state, for every field k and every value v   *)
(* valid for k, setSetting(k, v) is accepted and getSetting(k) returns v   *)
(* from then on, until the next call is made.                              *)
(***************************************************************************)
C4_RoundTrip ==
    /\ (call.op = "setSetting" /\ ValidFor(call.key, call.value))
          => getSetting(call.key) = call.value
    /\ (isInitialized /\ Idle) =>
          \A key \in FieldNames : \A value \in InputsOf(key) :
              ValidFor(key, value) =>
                  /\ ENABLED setSetting(key, value)
                  /\ ~ENABLED (setSetting(key, value) /\ ~AcceptedSetSetting(key, value))

\* a setSetting of a value that is not the default has returned
C4_Witness ==
    /\ Done("setSetting")
    /\ ValidFor(call.key, call.value)
    /\ call.value # defaultSettings[call.key]
    /\ getSetting(call.key) = call.value

(***************************************************************************)
(* C5 -- initialize() loads the record stored under the fixed key.  If it  *)
(* is absent or invalid in any field the in-memory record becomes the      *)
(* complete default record, never a mix of stored and default fields, and  *)
(* the defaults are written to the store; a valid stored record is taken   *)
(* whole.  The manager becomes Ready only after this load-or-default step  *)
(* has completed.                                                          *)
(***************************************************************************)
\* getItem(storageKey) gave a record that is valid in every field
LoadedValid(result) ==
    /\ result.success
    /\ result.data.kind = "object"
    /\ IsAppSettings(result.data.rec)

C5_LoadOrDefault ==
    /\ (call.op = "initialize" /\ call.pc \in {"set", "setDelay", "resume", "done"}) =>
          IF LoadedValid(call.result)
          THEN /\ settings = call.result.data.rec
               /\ asyncStorage = call.result.data
               /\ call.saved = "none"
               /\ written = <<>>
          ELSE /\ settings = defaultSettings
               /\ call.pc \in {"resume", "done"} => SavedOnce
    /\ Done("initialize") => isInitialized
    /\ (~isInitialized /\ ~(call.op = "initialize" /\ call.pc = "resume"))
          => ~ENABLED (Next /\ isInitialized')

\* initialize() has returned after finding a record of which only one field was
\* invalid: the defaults are in memory and in the store
C5_Witness ==
    /\ Done("initialize")
    /\ call.result.success
    /\ call.result.data.kind = "object"
    /\ call.result.data.rec.boost = Num(200)
    /\ call.result.data.rec.volume = Str
    /\ settings = defaultSettings
    /\ asyncStorage = JSONstringify(defaultSettings)

C7_NotInitialized ==
    ~isInitialized =>
        /\ getAllSettings = defaultSettings
        /\ \A key \in FieldNames : getSetting(key) = defaultSettings[key]
        /\ \A key \in FieldNames : \A value \in InputsOf(key) :
              /\ ENABLED setSetting(key, value)
              /\ ~ENABLED (setSetting(key, value) /\ ~Rejected("setSetting"))
        /\ \A partial \in Partials :
              /\ ENABLED setMultipleSettings(partial)
              /\ ~ENABLED (setMultipleSettings(partial)
                             /\ ~Rejected("setMultipleSettings"))
        /\ ENABLED resetToDefaults
        /\ ~ENABLED (resetToDefaults /\ ~Rejected("resetToDefaults"))

\* resetToDefaults() returned false while initialize() had loaded a record other
\* than the defaults and had not yet returned
C7_Witness ==
    /\ ~isInitialized
    /\ call.op = "initialize"
    /\ call.pc = "resume"
    /\ settings # defaultSettings
    /\ last = Returned("resetToDefaults", "false")

C10_ResetToDefaults ==
    /\ Done("resetToDefaults") =>
          /\ call.ret = "true"
          /\ settings = defaultSettings
          /\ SavedOnce
          /\ events = ExpectedEvents(Fields, before, defaultSettings)
    /\ (isInitialized /\ Idle) =>
          /\ ENABLED resetToDefaults
          /\ ~ENABLED (resetToDefaults /\ settings' # defaultSettings)

\* a reset of a record in which some fields, not all, differed from the defaults
C10_Witness ==
    /\ Done("resetToDefaults")
    /\ call.saved = "success"
    /\ Len(events) > 0
    /\ Len(events) < Len(Fields)
    /\ before.volume = defaultSettings.volume

(***************************************************************************)
(* C14 -- When the store write issued by setSetting, setMultipleSettings   *)
(* or resetToDefaults has failed after exhausting its retries, the         *)
(* operation is treated as not having happened: the in-memory record is    *)
(* the record from before the call.                                        *)
(* Violated: saveSettings() only logs the failure; the call keeps the      *)
(* record it put in memory before the write, notifies and returns true.    *)
(***************************************************************************)
Mutators == {"setSetting", "setMultipleSettings", "resetToDefaults"}

C14_FailedWriteKeepsRecord ==
    (call.op \in Mutators /\ call.pc = "done" /\ call.saved = "failure")
        => settings = before

(***************************************************************************)
(* C15 -- No public operation of the store or of the settings manager      *)
(* raises an exception to its caller: initialize() returns rather than     *)
(* throws when the underlying storage fails.                               *)
(* Violated: StorageManager.initialize() rethrows a failure of its test of *)
(* AsyncStorage, and SettingsManager.initialize() rethrows that in turn.   *)
(***************************************************************************)
C15_NothingThrown ==
    /\ call.pc # "thrown"
    /\ last.result # "rejected"

(***************************************************************************)
(* C11 -- A successful clearSettings() leaves no record under the storage  *)
(* key, and an initialize() that follows it, finding no record, makes the  *)
(* defaults the in-memory record and persists them.  (SpecClear)           *)
(***************************************************************************)
C11_ClearThenInitialize ==
    /\ (Done("clearSettings") /\ call.ret = "true") => asyncStorage = Absent
    /\ ( /\ cleared
         /\ call.op = "initialize"
         /\ call.pc \in {"set", "setDelay", "resume", "done"}
         /\ call.result = GetItemFound(Absent) )
       => /\ settings = defaultSettings
          /\ call.pc \in {"resume", "done"} => SavedOnce

\* initialize() has returned on a manager whose record was not the defaults and
\* whose document had been cleared: the defaults are in memory and in the store
C11_Witness ==
    /\ Done("initialize")
    /\ cleared
    /\ call.result = GetItemFound(Absent)
    /\ before # defaultSettings
    /\ settings = defaultSettings
    /\ asyncStorage = JSONstringify(defaultSettings)

(***************************************************************************)
(* C12 -- The clear operation resets the settings to the defaults as well  *)
(* as removing the durable record: after a successful clear,               *)
(* getAllSettings() returns the default record (so that a later setSetting *)
(* of one field cannot write the values from before the clear back).       *)
(* (SpecClear)                                                             *)
(* Violated: clearSettings() only removes the document; this.settings is   *)
(* left as it was, and the next setSetting writes it back whole.           *)
(***************************************************************************)
C12_ClearResetsMemory ==
    (Done("clearSettings") /\ call.ret = "true") => getAllSettings = defaultSettings

(***************************************************************************)
(* What a call to the store has asked of AsyncStorage.                     *)
(***************************************************************************)
\* its attempts on the key, in order
KeyAsks == SelectSeq(storeLog, LAMBDA e : e.key = storageKey)

\* the calls of the self-test of initialize(), in order
TestAsks == SelectSeq(storeLog, LAMBDA e : e.key = testKey)

RetriedCalls == {"setItem", "getItem", "removeItem"}

StoreFailure == StorageResult(FALSE, NonObj("undefined"))

NotFound == StorageResult(TRUE, NonObj("undefined"))

(***************************************************************************)
(* C16 -- Each setItem/getItem/removeItem of the store makes at most       *)
(* retryAttempts attempts, makes no attempt after one that succeeded,      *)
(* waits the delay only between a failed attempt and the next one (never   *)
(* after the last), can always take its next step until it has ended, and  *)
(* ends with a result: success if its last attempt succeeded, failure      *)
(* after retryAttempts failed attempts.  (SpecStore)                       *)
(* Violated: a call made while the store is not ready awaits initialize()  *)
(* outside its try block, and ends with the exception of initialize() when *)
(* the self-test fails (C15).                                              *)
(***************************************************************************)
C16_BoundedRetries ==
    store.op \in RetriedCalls =>
        /\ Len(KeyAsks) <= retryAttempts
        /\ \A i \in 1..(Len(KeyAsks) - 1) : ~KeyAsks[i].ok
        /\ \A i \in DOMAIN storeLog :
              storeLog[i] = Delayed =>
                  /\ i > 1
                  /\ storeLog[i - 1] = Asked(store.op, storageKey, FALSE)
                  /\ IF i < Len(storeLog)
                     THEN storeLog[i + 1].key = storageKey
                     ELSE store.pc = "attempt"
        /\ ~StoreIdle => ENABLED (StoreTestGet \/ StoreTestRemove \/ StoreAttempt
                                    \/ StoreDelay)
        /\ StoreIdle =>
              /\ store.pc = "done"
              /\ Len(KeyAsks) > 0
              /\ store.result.success = KeyAsks[Len(KeyAsks)].ok
              /\ ~store.result.success => /\ store.result = StoreFailure
                                          /\ Len(KeyAsks) = retryAttempts

(***************************************************************************)
(* C17 -- getItem on a key that is absent returns "not found", a success   *)
(* without data, which is not the failure result; the attempt that reads   *)
(* the absence ends the call, so that without a failed read it is the      *)
(* first attempt and no delay is waited.  (SpecStore)                      *)
(***************************************************************************)
C17_AbsentIsNotFound ==
    (store.op = "getItem" /\ asyncStorage = Absent) =>
        /\ (store.pc = "attempt")
              => ~ENABLED (StoreAttempt /\ faults' = faults
                             /\ ~(store'.pc = "done" /\ store'.result = NotFound))
        /\ (\E i \in DOMAIN KeyAsks : KeyAsks[i].ok)
              => /\ store.pc = "done"
                 /\ store.result = NotFound
                 /\ store.result # StoreFailure
                 /\ KeyAsks[Len(KeyAsks)].ok
        /\ (store.pc = "done" /\ \A i \in DOMAIN KeyAsks : KeyAsks[i].ok)
              => /\ store.attempt = 1
                 /\ Len(KeyAsks) = 1
                 /\ \A i \in DOMAIN storeLog : storeLog[i] # Delayed

\* getItem has returned "not found" from its first attempt
C17_Witness ==
    /\ store.op = "getItem"
    /\ store.pc = "done"
    /\ asyncStorage = Absent
    /\ store.result = NotFound
    /\ store.attempt = 1
    /\ KeyAsks = <<Asked("getItem", storageKey, TRUE)>>

(***************************************************************************)
(* C18 -- The initialization of the store writes, reads and deletes a test *)
(* key before the store is ready, and a call made while the store is not   *)
(* ready runs the initialization before it touches its key.  (SpecStore)   *)
(* Violated: initialize() reads and deletes the test key; it writes        *)
(* nothing.                                                                *)
(***************************************************************************)
C18_SelfTest ==
    (store.op # "none" /\ (store.lazy \/ store.op = "initialize")) =>
        /\ (store.pc \in {"attempt", "delay", "done"})
              => /\ storageInitialized
                 /\ [i \in DOMAIN TestAsks |-> TestAsks[i].op]
                        = <<"setItem", "getItem", "removeItem">>
                 /\ \A i \in DOMAIN TestAsks : TestAsks[i].ok
        /\ \A i, j \in DOMAIN storeLog :
              (storeLog[i].key = testKey /\ storeLog[j].key = storageKey) => i < j
        /\ KeyAsks # <<>> => storageInitialized

(***************************************************************************)
(* C13 -- Each change event is delivered exactly once to every listener    *)
(* registered at the time of emission, in registration order, also after a *)
(* listener that throws.  (SpecListeners)                                  *)
(* Violated: forEach runs over the live array, so when a listener removes  *)
(* itself while it is called the listener registered after it moves to the *)
(* index just visited and is skipped.                                      *)
(***************************************************************************)
C13_DeliveredToAll ==
    emitted # NotEmitted => delivered = emitted.listeners

(***************************************************************************)
(* C19 -- For every interleaving of overlapping setSetting,                *)
(* setMultipleSettings and resetToDefaults calls, retries and their delays *)
(* included, once all calls have completed the persisted record equals the *)
(* record in memory, which is the one the most recent mutation produced.   *)
(* (SpecOverlap; stated for runs in which no save used up its attempts.)   *)
(* Violated: the retry of a setSetting whose first write failed writes the *)
(* object setItem was given, and resetToDefaults or setMultipleSettings    *)
(* has meanwhile replaced this.settings, and written it, during the delay. *)
(***************************************************************************)
AllCompleted == \A slot \in Slots : inflight[slot].pc = "free"

C19_OverlapConverges ==
    (AllCompleted /\ last.op \in Mutators /\ last.result = "true" /\ ~saveExhausted)
        => asyncStorage = JSONstringify(settings)

(***************************************************************************)
(* C20 -- In every state where the stored gradualBoost is false the stored *)
(* boost is a multiple of 10: a write of boost with gradualBoost false     *)
(* stores the nearest multiple of 10, and toggling gradualBoost off at     *)
(* boost 47 stores boost 50.  (SpecComponent; stated once a setSetting of  *)
(* the component has returned and no save has used up its attempts, so     *)
(* that the stored record is one the component wrote.)                     *)
(* Violated: with boost enabled, handleBoostChange awaits the native       *)
(* setBoost before it saves the rounded boost, and the toggle, which does  *)
(* not await it, saves gradualBoost false first, next to the boost 47.     *)
(***************************************************************************)
C20_DiscreteWhenNotGradual ==
    (/\ component.loaded
     /\ last.op = "setSetting"
     /\ ~saveExhausted
     /\ asyncStorage.kind = "object"
     /\ asyncStorage.rec.gradualBoost = Bool(FALSE)
     /\ asyncStorage.rec.boost.kind = "number")
        => asyncStorage.rec.boost.val % 10 = 0

AppliedGain(svc) ==
    IF svc.loudnessEnhancer.status = "live" /\ svc.loudnessEnhancer.enabled
    THEN svc.loudnessEnhancer.gain ELSE 0

(***************************************************************************)
(* C24 -- After any sequence of setBoost and enableBoost commands on a     *)
(* running service the effect applies currentBoostLevel * 25, enabled,     *)
(* when isBoostEnabled and currentBoostLevel > 0, and applies 0, not       *)
(* enabled, otherwise; it is attached to the session of the app when       *)
(* isAppOnlyBoost and to the global session otherwise.  (SpecService)      *)
(* Violated after a command in which the effect engine threw (C25): the    *)
(* fields say the boost is active and no gain is applied.                  *)
(***************************************************************************)
C24_AppliedGain ==
    (service.created /\ service.command.cmd \in {"setBoost", "enableBoost"})
        => /\ AppliedGain(service)
                  = IF isBoostActive(service)
                    THEN service.currentBoostLevel * MillibelsPerPercent ELSE 0
           /\ service.loudnessEnhancer.enabled = isBoostActive(service)
           /\ service.loudnessEnhancer.status = "live"
                  => service.loudnessEnhancer.session
                         = IF service.isAppOnlyBoost THEN AppSession
                           ELSE GlobalSession

(***************************************************************************)
(* C25 -- When the effect engine fails during setBoost or enableBoost the  *)
(* failure is caught and currentBoostLevel, isAppOnlyBoost and             *)
(* isBoostEnabled keep the values they had before the command.             *)
(* (SpecService)  Violated: both methods assign the fields first.          *)
(***************************************************************************)
C25_FailureKeepsState ==
    (service.created /\ service.threw
     /\ service.command.cmd \in {"setBoost", "enableBoost"})
        => /\ service.currentBoostLevel = service.prior.currentBoostLevel
           /\ service.isAppOnlyBoost = service.prior.isAppOnlyBoost
           /\ service.isBoostEnabled = service.prior.isBoostEnabled

(***************************************************************************)
(* C26 -- While the service runs in the foreground, after every setBoost   *)
(* or enableBoost the notification describes the current state: level and  *)
(* scope when the boost is active, disabled otherwise.  (SpecService;      *)
(* stated for runs in which the effect engine never threw.)                *)
(* Violated: updateNotification does nothing unless the boost is active,   *)
(* so the notification keeps the level after enableBoost(false).           *)
(***************************************************************************)
C26_NotificationCurrent ==
    (service.created /\ service.foreground /\ ~service.faulted
     /\ service.command.cmd \in {"setBoost", "enableBoost"})
        => service.notification = createNotification(service)

\* a new instance: level 0, boost disabled, device wide, no gain applied
Fresh(svc) ==
    /\ svc.currentBoostLevel = 0
    /\ ~svc.isBoostEnabled
    /\ ~svc.isAppOnlyBoost
    /\ AppliedGain(svc) = 0

C29_VolumeUntouched ==
    [][service' # service => streamVolume' = streamVolume]_vars

\* C29: the volume is not the one of the start and the service applies a gain
C29_Witness ==
    /\ streamVolume # InitialVolume
    /\ service.foreground
    /\ AppliedGain(service) = 200 * MillibelsPerPercent

(***************************************************************************)
(* C30 -- The commands of the service are idempotent: handling the same    *)
(* setBoost(L, a) or the same enableBoost(e) twice in a row leaves the     *)
(* fields, the effect and the notification as handling it once does.       *)
(* Each step of the service handles one command, in the order received.    *)
(* (SpecService)                                                           *)
(***************************************************************************)
C30_Idempotent ==
    service.created
        => /\ \A boostLevel \in ServiceLevels, appOnly \in BOOLEAN,
                 fault \in FaultPoints :
                  ServiceSetBoost(ServiceSetBoost(service, boostLevel, appOnly, fault),
                                  boostLevel, appOnly, fault)
                      = ServiceSetBoost(service, boostLevel, appOnly, fault)
           /\ \A enabled \in BOOLEAN, fault \in {"none", "gain"} :
                  ServiceEnableBoost(ServiceEnableBoost(service, enabled, fault),
                                     enabled, fault)
                      = ServiceEnableBoost(service, enabled, fault)

\* C30: the same setBoost has been handled twice in a row, the boost active
C30_Witness ==
    /\ service.created
    /\ service.command = [NoCommand EXCEPT !.cmd = "setBoost", !.level = 100,
                                           !.appOnly = TRUE]
    /\ service.prior = [isBoostEnabled |-> TRUE, isAppOnlyBoost |-> TRUE,
                        currentBoostLevel |-> 100]
    /\ AppliedGain(service) = 100 * MillibelsPerPercent

(***************************************************************************)
(* C21 -- On the foreground engine of the module, after                    *)
(* setBoostEnabled(false) the effect applies no gain whatever the level,   *)
(* and a later setBoost(level) changes nothing of that until               *)
(* setBoostEnabled(true).  (SpecModule)                                    *)
(* Violated: setBoost of the module applies level * 25 and enables the     *)
(* effect without looking at isBoostEnabled.                               *)
(***************************************************************************)
C21_MasterSwitch ==
    (module.initialized /\ module.switchedOff /\ ~UsesService(module))
        => /\ ~module.isBoostEnabled
           /\ AppliedGain(module) = 0

(***************************************************************************)
(* C27 -- Once background mode is enabled and the service is connected,    *)
(* with nothing else called, the level, the enabled flag and the app-only  *)
(* flag of the service are those of the module.  (SpecModule)              *)
(* Violated: setBackgroundMode only starts and binds the service, which    *)
(* begins at level 0, disabled, device wide.                               *)
(***************************************************************************)
C27_BackgroundMirrors ==
    (UsesService(module) /\ service.created
     /\ module.command.cmd \in {"setBackgroundMode", "onServiceConnected"})
        => /\ service.currentBoostLevel = module.currentBoostLevel
           /\ service.isBoostEnabled = module.isBoostEnabled
           /\ service.isAppOnlyBoost = module.isAppOnlyBoost

(***************************************************************************)
(* C22 -- When the user turns boostEnabled on while the boost of the       *)
(* settings is B, the component calls VolumeBoosterModule.setBoost(B);     *)
(* when the user turns it off it calls setBoost(0), and the                *)
(* setSetting('boostEnabled', false) that follows leaves the boost of the  *)
(* settings at B.  (SpecComponent; the scope is not an argument of the     *)
(* call: the module applies its own isAppOnlyBoost.)                       *)
(* Violated after clearAllSettings (C12): the React state is 0, the        *)
(* settings still hold B, and setBoost(0) is sent.                         *)
(***************************************************************************)
C22_ToggleAppliesStoredBoost ==
    \A i \in DOMAIN awaiting :
        awaiting[i].handler = "handleBoostEnabledToggle"
            => /\ awaiting[i].level = IF IsTrue(awaiting[i].value)
                                      THEN settings.boost ELSE Num(0)
               /\ FirstFree(ManagerState) # 0
                      => \A ok \in Outcomes(ManagerState) :
                             SetSettingCall(ManagerState, "boostEnabled",
                                            awaiting[i].value, ok).settings.boost
                                 = settings.boost

(***************************************************************************)
(* C31 -- With the levels the component can send, those of its boost       *)
(* slider, the currentBoostLevel of the service is always in 0..200 and    *)
(* the gain of its effect in 0..5000 millibels.  (SpecModule)              *)
(***************************************************************************)
C31_LevelAndGainRange ==
    /\ service.currentBoostLevel \in 0..200
    /\ service.loudnessEnhancer.gain \in 0..5000

\* C31: the bound service applies the highest level the slider can send
C31_Witness ==
    /\ UsesService(module)
    /\ service.currentBoostLevel = 200
    /\ AppliedGain(service) = 5000

\* the session an effect is attached to: the global one, or the one its owner
\* generated for itself
SessionOf(owner, enhancer) ==
    IF enhancer.session = GlobalSession THEN "global" ELSE owner

(***************************************************************************)
(* C36 -- While background mode is enabled, every setBoost,                *)
(* setBoostEnabled and setAppOnlyBoost of the module made after            *)
(* setBackgroundMode(true) reaches the service, also before                *)
(* onServiceConnected has run.  (SpecModule)                               *)
(* Violated: until onServiceConnected the calls take the foreground        *)
(* branch and nothing replays them.                                        *)
(***************************************************************************)
C36_CallsReachService ==
    (module.isBackgroundModeEnabled /\ service.created)
        => /\ module.command.cmd = "setBoost"
                  => service.currentBoostLevel = module.currentBoostLevel
           /\ module.command.cmd = "setBoostEnabled"
                  => service.isBoostEnabled = module.isBoostEnabled
           /\ module.command.cmd = "setAppOnlyBoost"
                  => service.isAppOnlyBoost = module.isAppOnlyBoost

(***************************************************************************)
(* C37 -- After setBackgroundMode(false), whenever an onServiceConnected   *)
(* of an earlier setBackgroundMode(true) runs, the module holds no binding *)
(* and isBackgroundServiceRunning is false while background mode is        *)
(* disabled.  (SpecModule)                                                 *)
(* Violated: unbindService is skipped while isServiceBound is false, and   *)
(* the late onServiceConnected sets isServiceBound.                        *)
(***************************************************************************)
C37_NoBindingWhenDisabled ==
    ~module.isBackgroundModeEnabled => ~module.isServiceBound

(***************************************************************************)
(* C38 -- The effect of the module and the effect of the service never     *)
(* both apply a gain above zero to the same audio session.  (SpecModule)   *)
(* Violated: setBackgroundMode(true) leaves the effect of the module as it *)
(* is, and the service then applies its own gain to the global session.    *)
(***************************************************************************)
C38_NoStackedGain ==
    ~ /\ AppliedGain(module) > 0
      /\ AppliedGain(service) > 0
      /\ SessionOf("module", module.loudnessEnhancer)
             = SessionOf("service", service.loudnessEnhancer)

(***************************************************************************)
(* C39 -- setBoost(level) of the module on the foreground engine leaves    *)
(* isBoostEnabled as it was: only setBoostEnabled changes it.              *)
(* (SpecModule)                                                            *)
(* Violated: setBoost calls restartAudioPlayback while isBoostEnabled, and *)
(* restartAudioPlayback assigns isBoostEnabled = false.                    *)
(***************************************************************************)
C39_SetBoostKeepsFlag ==
    (module.initialized /\ ~UsesService(module))
        => \A boostLevel \in ServiceLevels :
               ModuleSetBoost(module, boostLevel).isBoostEnabled
                   = module.isBoostEnabled

\* a listener that does not call removeChangeListener when it is called
StaysRegistered(listener) == listener # "once"

(***************************************************************************)
(* C35 -- A listener that calls removeChangeListener while an event is     *)
(* delivered does not make a listener that stays registered miss the       *)
(* event: the listeners other than the removing one that were registered   *)
(* at the emission are all called, in order.  (SpecListeners)              *)
(* Violated: the splice moves the next listener to the index forEach has   *)
(* just visited (C13).                                                     *)
(***************************************************************************)
C35_RemovalSkipsNobody ==
    emitted # NotEmitted
        => SelectSeq(delivered, StaysRegistered)
               = SelectSeq(emitted.listeners, StaysRegistered)

\* the persisted record is there and passes validateSettings
StoredValid ==
    /\ asyncStorage.kind = "object"
    /\ validateSettings(asyncStorage).isValid

(***************************************************************************)
(* C33 -- initialize() writes the defaults over the persisted record only  *)
(* when that record is absent or fails validation: whenever loadSettings   *)
(* is about to save the defaults, the store does not hold a valid record.  *)
(* (Spec)                                                                  *)
(* Violated: a getItem that has failed on all its attempts gives           *)
(* success false, which loadSettings treats as no saved settings.          *)
(***************************************************************************)
C33_DefaultsOnlyOverInvalid ==
    (call.op = "initialize" /\ call.pc = "set") => ~StoredValid

\* the settings setSetting is called with
FrameInputs == OverlapInputs \cup {<<"boostEnabled", Bool(FALSE)>>}

(***************************************************************************)
(* C32 -- setSetting(k, v) changes only field k: every other field of the  *)
(* record in memory and of the persisted record keeps its value; setting   *)
(* boostEnabled to false leaves the stored boost as it is.  (SpecOverlap,  *)
(* for a call made when no other call is at an await and whose write       *)
(* succeeds.)                                                              *)
(* Violated for the persisted record: setSetting writes the whole record   *)
(* in memory, which differs from the store after a save that failed (C14). *)
(***************************************************************************)
C32_OnlyFieldChanges ==
    (isInitialized /\ storageInitialized /\ Idle /\ AllCompleted)
        => \A input \in FrameInputs :
               LET after == SetSettingCall(ManagerState, input[1], input[2], TRUE)
               IN  \A field \in FieldNames \ {input[1]} :
                       /\ after.settings[field] = settings[field]
                       /\ (asyncStorage.kind = "object"
                           /\ field \in DOMAIN asyncStorage.rec)
                              => after.asyncStorage.rec[field]
                                     = asyncStorage.rec[field]

(***************************************************************************)
(* C34 -- For overlapping setSetting calls on one key the events are       *)
(* delivered in the order the record in memory was changed: once all calls *)
(* have returned, the newValue of the last event delivered equals          *)
(* getSetting(key).  (SpecSameKey)                                         *)
(* Violated: each call notifies after its own write, so a call whose write *)
(* is retried notifies after a later call and a listener mirroring         *)
(* newValue ends with the older value.                                     *)
(***************************************************************************)
C34_LastEventIsCurrent ==
    (AllCompleted /\ last.op = "setSetting" /\ last.result = "true"
     /\ events # <<>>)
        => events[Len(events)].newValue = getSetting(events[Len(events)].key)

\* the Runnable of a monitoring is posted or running
Monitoring(runnable) ==
    runnable \in monitor.queue \/ monitor.running = runnable

(***************************************************************************)
(* C40 -- Device monitoring and volume monitoring are stopped              *)
(* independently: a monitoring that was started and has not been stopped   *)
(* keeps its Runnable, whatever was done to the other one.  (SpecMonitor)  *)
(* Violated: both stop methods call handler.removeCallbacksAndMessages     *)
(* (null) on the one Handler, which removes the Runnable of the other      *)
(* monitoring too.                                                         *)
(***************************************************************************)
C40_StoppedIndependently ==
    /\ monitor.volumeWanted => Monitoring("volume")
    /\ monitor.deviceWanted => Monitoring("device")

====
